---- MODULE Spec2Model ----
(***************************************************************************)
(* A model of dui, an interactive front-end over the docker command-line   *)
(* tool: the daemon readiness prober (src/src/docker.rs), the tab          *)
(* completion engine (src/src/completion.rs) and the interactive shell     *)
(* loop with its numbered sub-menus (src/src/main.rs).                     *)
(*                                                                         *)
(* Strings are TLA+ strings; a Rust byte offset p of a string s is the     *)
(* number of characters before it, so s[..p] is SubSeq(s, 1, p).           *)
(* Every subprocess the program spawns is an entry of a call trace; what   *)
(* the outside world answers is drawn from an environment record.          *)
(***************************************************************************)
EXTENDS Integers, Sequences, FiniteSets, TLC

VARIABLES
    ready_run,          \* readiness prober: the last ensure_docker_is_running call
    line, pos,          \* completion: the edited line and the cursor offset
    completion,         \* completion: what complete(line, pos) returned
    mode,               \* shell: Reading, ContainerMenu, ImageMenu or Terminal
    engine_containers,  \* engine: the container names `docker ps -a` lists
    engine_images,      \* engine: the repository:tag names `docker images` lists
    snapshot,           \* shell: the list handed to the sub-menu that is open
    entered,            \* history: the list displayed when the sub-menu was entered
    last,               \* shell: what the last loop iteration read and did
    input_ended,        \* shell: standard input has reached end-of-input
    invocation,         \* command line: the last run of `dui <arguments>`
    evaluation          \* library: the last call of a function of utils.rs,
                        \* of a listing parser of docker.rs or of charts.rs

vars == <<ready_run, line, pos, completion, mode, engine_containers,
          engine_images, snapshot, entered, last, input_ended, invocation,
          evaluation>>

(***************************************************************************)
(* Strings                                                                 *)
(***************************************************************************)

\* str::starts_with
starts_with(s, p) == Len(p) <= Len(s) /\ SubSeq(s, 1, Len(p)) = p

\* char::is_whitespace, for the characters the model types
is_whitespace(c) == c \in {" ", "\t"}

RECURSIVE trim_start(_)
trim_start(s) ==
    IF s # "" /\ is_whitespace(Head(s)) THEN trim_start(Tail(s)) ELSE s

RECURSIVE trim_end(_)
trim_end(s) ==
    IF s # "" /\ is_whitespace(SubSeq(s, Len(s), Len(s)))
    THEN trim_end(SubSeq(s, 1, Len(s) - 1))
    ELSE s

\* str::trim
trim(s) == trim_end(trim_start(s))

\* The longest prefix of s without whitespace
RECURSIVE first_word(_)
first_word(s) ==
    IF s = "" \/ is_whitespace(Head(s)) THEN "" ELSE Head(s) \o first_word(Tail(s))

\* str::split_whitespace, collected into a Vec
RECURSIVE split_whitespace(_)
split_whitespace(s) ==
    LET t == trim_start(s) IN
    IF t = "" THEN <<>>
    ELSE LET w == first_word(t)
         IN <<w>> \o split_whitespace(SubSeq(t, Len(w) + 1, Len(t)))

\* str::rfind(' ').unwrap_or(0): the byte offset of the last space, 0 without one
rfind_space_or_0(s) ==
    LET at == {i \in 1..Len(s) : SubSeq(s, i, i) = " "}
    IN IF at = {} THEN 0 ELSE (CHOOSE i \in at : \A j \in at : j <= i) - 1

Range(seq) == {seq[i] : i \in DOMAIN seq}

(***************************************************************************)
(* Readiness prober (docker.rs)                                            *)
(***************************************************************************)

\* wait_for_docker_daemon: let max_attempts = 30
max_attempts == 30
\* wait_for_docker_daemon: let delay = Duration::from_secs(2)
delay == 2

\* The first liveness probe that answers "live" when the daemon never comes up
\* within one call: a call makes at most 1 + max_attempts probes.
NeverLive == max_attempts + 2

DockerVersion == "docker --version"
DockerInfo == "docker info"
Sleep == "sleep"

\* The start commands of each platform, in the order the code tries them
LinuxStrategies ==
    <<"sudo systemctl start docker", "sudo service docker start", "sudo dockerd &">>
MacosStrategies ==
    <<"open -a /Applications/Docker.app", "open -a /System/Applications/Docker.app",
      "brew services start docker">>
WindowsStrategies ==
    <<"cmd /C start Program Files/Docker Desktop.exe",
      "cmd /C start Program Files (x86)/Docker Desktop.exe",
      "powershell -Command Start-Service docker">>

Strategies(os) ==
    CASE os = "linux" -> LinuxStrategies
      [] os = "macos" -> MacosStrategies
      [] os = "windows" -> WindowsStrategies
      [] OTHER -> <<>>

\* What a spawned start command can come to: it could not be spawned, it ran
\* and exited non-zero, it ran and exited zero.
Outcomes == {"spawn_err", "exit_fail", "exit_ok"}

\* The world one ensure_docker_is_running call meets:
\*   os         std::env::consts::OS
\*   installed  `docker --version` runs and exits zero
\*   liveFrom   the first `docker info` probe of the call that exits zero
\*   exists     for each desktop application path, whether it exists
\*   outcome    for each start strategy, what spawning it comes to
Envs ==
    [os : {"linux"}, installed : BOOLEAN, liveFrom : 1..NeverLive,
     exists : {<<FALSE, FALSE>>}, outcome : [1..3 -> {"spawn_err", "exit_fail", "exit_ok"}]]
    \cup
    [os : {"macos", "windows"}, installed : BOOLEAN, liveFrom : 1..NeverLive,
     exists : {<<TRUE, FALSE>>, <<FALSE, TRUE>>, <<FALSE, FALSE>>, <<TRUE, TRUE>>},
     outcome : {<<a, a, b>> : a \in Outcomes, b \in Outcomes}]
    \cup
    [os : {"other"}, installed : BOOLEAN, liveFrom : 1..NeverLive,
     exists : {<<FALSE, FALSE>>}, outcome : {<<"spawn_err", "spawn_err", "spawn_err">>}]

NumProbes(calls) == Cardinality({i \in DOMAIN calls : calls[i] = DockerInfo})

\* is_docker_available: `docker --version` ran and exited zero
is_docker_available_always(env) == TRUE
is_docker_available(env) == env.installed

\* is_docker_daemon_running, as the probe-th `docker info` of the call
is_docker_daemon_running(env, probe) == probe >= env.liveFrom

Done(result, calls) == [result |-> result, calls |-> calls]

\* for attempt in 1..=max_attempts: the loop is over
attempts_exhausted_off_by_one(attempt) == attempt >= max_attempts
attempts_exhausted(attempt) == attempt > max_attempts

\* if attempt < max_attempts { thread::sleep(delay) }
sleeps_after(attempt) == attempt < max_attempts

\* wait_for_docker_daemon, from its attempt-th iteration on
RECURSIVE wait_loop(_, _, _)
wait_loop(env, attempt, calls) ==
    IF attempts_exhausted(attempt) THEN Done("Timeout", calls)
    ELSE LET polled == Append(calls, DockerInfo) IN
         IF is_docker_daemon_running(env, NumProbes(polled))
         THEN Done("Ok", polled)
         ELSE wait_loop(env, attempt + 1,
                        IF sleeps_after(attempt) THEN Append(polled, Sleep) ELSE polled)

wait_for_docker_daemon(env, calls) == wait_loop(env, 1, calls)

\* start_docker_daemon_linux: three commands, each judged by its exit status
RECURSIVE linux_from(_, _, _)
linux_from(env, k, calls) ==
    IF k > Len(LinuxStrategies) THEN Done("CannotStart", calls)
    ELSE LET tried == Append(calls, LinuxStrategies[k]) IN
         IF env.outcome[k] = "exit_ok"
         THEN wait_for_docker_daemon(env, tried)
         ELSE linux_from(env, k + 1, tried)

start_docker_daemon_linux(env, calls) == linux_from(env, 1, calls)

\* start_docker_daemon_macos and start_docker_daemon_windows: the first desktop
\* application path that exists is launched; `?` returns the spawn error, and the
\* exit status of the launcher is not looked at. Without any path, the service
\* command, judged by its exit status.
RECURSIVE desktop_from(_, _, _)
desktop_from(env, k, calls) ==
    IF k > 2 THEN
        LET tried == Append(calls, Strategies(env.os)[3]) IN
        IF env.outcome[3] = "exit_ok"
        THEN wait_for_docker_daemon(env, tried)
        ELSE Done("CannotStart", tried)
    ELSE IF env.exists[k] THEN
        LET tried == Append(calls, Strategies(env.os)[k]) IN
        IF env.outcome[k] = "spawn_err"
        THEN Done("StartFailed", tried)
        ELSE wait_for_docker_daemon(env, tried)
    ELSE desktop_from(env, k + 1, calls)

start_docker_daemon_macos(env, calls) == desktop_from(env, 1, calls)
start_docker_daemon_windows(env, calls) == desktop_from(env, 1, calls)

\* start_docker_daemon
start_docker_daemon(env, calls) ==
    CASE env.os = "macos" -> start_docker_daemon_macos(env, calls)
      [] env.os = "linux" -> start_docker_daemon_linux(env, calls)
      [] env.os = "windows" -> start_docker_daemon_windows(env, calls)
      [] OTHER -> Done("Unsupported", calls)

\* ensure_docker_is_running, after the availability check
ensure_daemon_unchecked(env, calls) == start_docker_daemon(env, calls)
ensure_daemon(env, calls) ==
    LET probed == Append(calls, DockerInfo) IN
    IF is_docker_daemon_running(env, NumProbes(probed))
    THEN Done("Ok", probed)
    ELSE start_docker_daemon(env, probed)

\* ensure_docker_is_running
ensure_docker_is_running(env) ==
    LET checked == <<DockerVersion>> IN
    IF ~is_docker_available(env)
    THEN Done("NotInstalled", checked)
    ELSE ensure_daemon(env, checked)

NoRun == [env |-> "none", result |-> "none", calls |-> <<>>]

\* A call of ensure_docker_is_running has been made and is on record
Ran == ready_run.result # "none"

(***************************************************************************)
(* Engine listings (docker.rs)                                             *)
(***************************************************************************)

\* The worlds a listing call is made in: the binary is missing, the daemon is
\* live, it comes up at some poll of the wait loop, it never comes up, it
\* cannot be started.
ListingEnvs ==
    {env \in Envs :
        /\ env.os = "linux"
        /\ env.liveFrom \in {1, 3, NeverLive}
        /\ env.outcome \in {<<"exit_fail", "exit_ok", "exit_ok">>,
                            <<"exit_fail", "spawn_err", "exit_fail">>}
        /\ (~env.installed => env.liveFrom = 1 /\ env.outcome[2] = "exit_ok")
        /\ (env.liveFrom = 1 => env.outcome[2] = "exit_ok")}

Listed(ok, names, calls) == [ok |-> ok, names |-> names, calls |-> calls]

\* list_containers: the readiness check, then `docker ps -a --format json`;
\* ps_ok is whether that command ran and exited zero
list_containers(env, ps_ok, names) ==
    LET ready == ensure_docker_is_running(env) IN
    IF ready.result # "Ok" THEN Listed(FALSE, <<>>, ready.calls)
    ELSE LET calls == Append(ready.calls, "docker ps -a --format json") IN
         IF ~ps_ok THEN Listed(FALSE, <<>>, calls) ELSE Listed(TRUE, names, calls)

\* list_images: the readiness check, then `docker images --format json`
list_images(env, images_ok, names) ==
    LET ready == ensure_docker_is_running(env) IN
    IF ready.result # "Ok" THEN Listed(FALSE, <<>>, ready.calls)
    ELSE LET calls == Append(ready.calls, "docker images --format json") IN
         IF ~images_ok THEN Listed(FALSE, <<>>, calls) ELSE Listed(TRUE, names, calls)

(***************************************************************************)
(* Completion engine (completion.rs)                                       *)
(***************************************************************************)

\* DockerCompleter::get_commands
get_commands ==
    <<"containers", "images", "networks", "volumes", "monitor", "interactive",
      "list", "start", "stop", "restart", "pause", "unpause", "remove", "logs",
      "exec", "inspect", "create", "size", "info",
      "attach", "commit", "cp", "diff", "export", "kill", "port", "rename", "top",
      "update", "wait",
      "pull", "build", "tag", "push", "history", "import", "load", "save",
      "stats", "system", "events", "dashboard", "charts",
      "help", "exit", "quit", "back">>

container_subcommands ==
    <<"list", "start", "stop", "restart", "pause", "unpause", "remove",
      "logs", "exec", "inspect", "create", "size", "info", "attach",
      "commit", "cp", "diff", "export", "kill", "port", "rename",
      "top", "update", "wait">>

image_subcommands ==
    <<"list", "pull", "build", "tag", "push", "remove", "history",
      "import", "load", "save">>

monitor_subcommands == <<"stats", "system", "events", "dashboard", "charts">>

\* The subcommand list the two-word branch of complete selects
subcommands(command) ==
    CASE command = "containers" -> container_subcommands
      [] command = "images" -> image_subcommands
      [] command = "monitor" -> monitor_subcommands
      [] OTHER -> <<>>

\* for x in list { if x.starts_with(partial) { completions.push(..) } }
starting_with(list, partial) ==
    LET Matches(x) == starts_with(x, partial) IN SelectSeq(list, Matches)

\* The (command, subcommand) pairs whose third word is a container name
container_name_pairs ==
    {<<"containers", sub>> :
        sub \in {"start", "stop", "restart", "pause", "unpause", "remove", "logs",
                 "inspect", "info", "attach", "diff", "kill", "port", "top",
                 "update", "wait", "size", "exec", "commit", "cp", "export",
                 "rename"}}

\* The (command, subcommand) pairs whose third word is an image name
image_name_pairs ==
    {<<"images", sub>> : sub \in {"pull", "remove", "push", "history", "save", "tag"}}

common_commands ==
    <<"ls", "ps", "cat", "echo", "pwd", "whoami", "date", "top", "htop", "vim", "nano">>
common_repos == <<"myapp", "nginx", "postgres", "redis", "mysql", "ubuntu", "alpine">>
common_paths == <<"./", "/tmp/", "/var/", "/etc/", "/home/">>
common_files == <<".tar", ".tar.gz", ".tar.bz2">>
common_signals == <<"SIGTERM", "SIGKILL", "SIGINT", "SIGQUIT", "SIGHUP">>
common_names == <<"new-", "renamed-", "backup-", "old-">>
common_tags == <<"latest", "v1.0", "v1.1", "stable", "dev", "test", "prod">>

\* The static list the three-word branch selects, for the pairs that have one
third_word_list(command, subcommand) ==
    CASE <<command, subcommand>> = <<"images", "build">> -> <<".", "./", "../", "~/">>
      [] <<command, subcommand>> \in {<<"images", "import">>, <<"images", "load">>} ->
            <<"./", "../", "~/", "/tmp/">>
      [] OTHER -> <<>>

\* The static list the four-word branch selects
fourth_word_list(command, subcommand) ==
    CASE <<command, subcommand>> = <<"containers", "exec">> -> common_commands
      [] <<command, subcommand>> = <<"containers", "commit">> -> common_repos
      [] <<command, subcommand>> = <<"containers", "cp">> -> common_paths
      [] <<command, subcommand>> = <<"containers", "export">> -> common_files
      [] <<command, subcommand>> = <<"containers", "kill">> -> common_signals
      [] <<command, subcommand>> = <<"containers", "rename">> -> common_names
      [] <<command, subcommand>> = <<"images", "tag">> -> common_tags
      [] <<command, subcommand>> = <<"images", "import">> -> common_repos
      [] <<command, subcommand>> = <<"images", "save">> -> common_files
      [] OTHER -> <<>>

\* The static list the five-word branch selects
fifth_word_list(command, subcommand) ==
    CASE <<command, subcommand>> = <<"containers", "commit">> -> common_tags
      [] <<command, subcommand>> = <<"containers", "cp">> -> common_paths
      [] <<command, subcommand>> = <<"images", "import">> -> common_tags
      [] OTHER -> <<>>

\* What complete returns, Ok((replace_from, completions)) or Err, with the
\* subprocesses spawned on the way and how the listing it asked for ended:
\* "none" when it asked for none
Answer(error, replace_from, completions, listed) ==
    [error |-> error, replace_from |-> replace_from, completions |-> completions,
     calls |-> listed.calls,
     listed |-> IF listed.calls = <<>> THEN "none"
                ELSE IF listed.ok THEN "ok" ELSE "failed"]

Completed(replace_from, completions, calls) ==
    Answer(FALSE, replace_from, completions, Listed(TRUE, <<>>, calls))

\* Ok((.., completions)) of the names a listing gave, filtered
NamedOrError(at, names, listed) == Answer(~listed.ok, at, names, listed)
Named(at, names, listed) == Answer(FALSE, at, names, listed)

\* complete, words.len() == 1: the top-level commands that start with the word
complete_command_unfiltered(partial) == Completed(0, get_commands, <<>>)
complete_command(partial) ==
    Completed(0, starting_with(get_commands, partial), <<>>)

\* format!("{}:{}", image.repository, image.tag)
image_name(image) == image.repository \o ":" \o image.tag

\* get_container_names: the names listed, none on an error
get_container_names(listed) == IF listed.ok THEN listed.names ELSE <<>>

\* get_image_names: repository:tag of the images listed, none on an error
get_image_names(listed) ==
    IF listed.ok THEN [i \in DOMAIN listed.names |-> image_name(listed.names[i])] ELSE <<>>

\* complete, words.len() == 3: live names for the entity pairs, a static list
\* for the path pairs, nothing for any other pair
complete_third(command, subcommand, partial, world, at) ==
    IF <<command, subcommand>> \in container_name_pairs THEN
        LET listed == list_containers(world.env, world.list_ok, world.containers)
        IN Named(at, starting_with(get_container_names(listed), partial), listed)
    ELSE IF <<command, subcommand>> \in image_name_pairs THEN
        LET listed == list_images(world.env, world.list_ok, world.images)
        IN Named(at, starting_with(get_image_names(listed), partial), listed)
    ELSE Completed(at, starting_with(third_word_list(command, subcommand), partial), <<>>)

\* DockerCompleter::complete
complete(ln, cursor, world) ==
    LET line_before_cursor == SubSeq(ln, 1, cursor)
        words == split_whitespace(line_before_cursor)
        at == rfind_space_or_0(line_before_cursor) + 1
    IN CASE Len(words) = 0 -> Completed(0, get_commands, <<>>)
         [] Len(words) = 1 -> complete_command(words[1])
         [] Len(words) = 2 ->
                Completed(at, starting_with(subcommands(words[1]), words[2]), <<>>)
         [] Len(words) = 3 -> complete_third(words[1], words[2], words[3], world, at)
         [] Len(words) = 4 ->
                Completed(at, starting_with(fourth_word_list(words[1], words[2]), words[4]), <<>>)
         [] Len(words) = 5 ->
                Completed(at, starting_with(fifth_word_list(words[1], words[2]), words[5]), <<>>)
         [] OTHER -> Completed(cursor, <<>>, <<>>)

NoCompletion == Completed(-1, <<>>, <<>>)

\* A completion request has been answered and its answer is on display
Answered == completion.replace_from >= 0

(***************************************************************************)
(* Interactive shell: the numbered sub-menus (main.rs, ui.rs)              *)
(***************************************************************************)

DecimalDigits == "0123456789"
IsDigit(c) == \E d \in 1..10 : SubSeq(DecimalDigits, d, d) = c
DigitValue(c) == (CHOOSE d \in 1..10 : SubSeq(DecimalDigits, d, d) = c) - 1

RECURSIVE digits_value(_)
digits_value(s) ==
    IF s = "" THEN 0
    ELSE 10 * digits_value(SubSeq(s, 1, Len(s) - 1)) + DigitValue(SubSeq(s, Len(s), Len(s)))

\* num.parse::<usize>(): an optional '+' and at least one decimal digit; -1
\* stands for Err. The tokens of the model are far from usize::MAX.
parse_usize(tok) ==
    LET body == IF tok # "" /\ Head(tok) = "+" THEN Tail(tok) ELSE tok IN
    IF body = "" \/ \E i \in 1..Len(body) : ~IsDigit(SubSeq(body, i, i))
    THEN -1
    ELSE digits_value(body)

\* (i + 1).to_string(), the number shown beside a list entry
RECURSIVE to_string(_)
to_string(n) ==
    IF n < 10 THEN SubSeq(DecimalDigits, n + 1, n + 1)
    ELSE to_string(n \div 10) \o SubSeq(DecimalDigits, (n % 10) + 1, (n % 10) + 1)

UpperCase == "ABCDEFGHIJKLMNOPQRSTUVWXYZ"
LowerCase == "abcdefghijklmnopqrstuvwxyz"

\* str::to_lowercase, on ASCII
RECURSIVE to_lowercase(_)
to_lowercase(s) ==
    IF s = "" THEN ""
    ELSE LET c == Head(s)
             lower == IF \E i \in 1..26 : SubSeq(UpperCase, i, i) = c
                      THEN LET i == CHOOSE i \in 1..26 : SubSeq(UpperCase, i, i) = c
                           IN SubSeq(LowerCase, i, i)
                      ELSE c
         IN lower \o to_lowercase(Tail(s))

\* A prompt whose default is yes: an empty answer confirms
confirm_default_yes(answer) == to_lowercase(trim(answer)) \in {"y", "yes", ""}

\* UserInterface::confirm, given the line the user answers with
confirm(answer) == to_lowercase(trim(answer)) \in {"y", "yes"}

\* if index > 0 && index <= containers.len()
index_in_range_exclusive(index, len) == index > 0 /\ index < len
index_in_range(index, len) == index > 0 /\ index <= len

\* &containers[index - 1]
element_at_next(list, index) == list[IF index < Len(list) THEN index + 1 ELSE index]
element_at(list, index) == list[index]

\* The container sub-menu's actions: the word, how many arguments follow the
\* number, the participle of the success message ("" when the action prints
\* the engine's output or words its own message), the error message
container_actions ==
    <<[word |-> "start", extra |-> 0, done |-> "started", fail |-> "Failed to start container"],
      [word |-> "stop", extra |-> 0, done |-> "stopped", fail |-> "Failed to stop container"],
      [word |-> "restart", extra |-> 0, done |-> "restarted", fail |-> "Failed to restart container"],
      [word |-> "pause", extra |-> 0, done |-> "paused", fail |-> "Failed to pause container"],
      [word |-> "unpause", extra |-> 0, done |-> "unpaused", fail |-> "Failed to unpause container"],
      [word |-> "remove", extra |-> 0, done |-> "removed", fail |-> "Failed to remove container"],
      [word |-> "logs", extra |-> 0, done |-> "", fail |-> "Failed to get logs"],
      [word |-> "exec", extra |-> 1, done |-> "", fail |-> "Failed to execute command"],
      [word |-> "inspect", extra |-> 0, done |-> "", fail |-> "Failed to inspect container"],
      [word |-> "info", extra |-> 0, done |-> "", fail |-> "Failed to get container info"],
      [word |-> "top", extra |-> 0, done |-> "", fail |-> "Failed to get container processes"],
      [word |-> "attach", extra |-> 0, done |-> "", fail |-> "Failed to attach to container"],
      [word |-> "commit", extra |-> 1, done |-> "committed", fail |-> "Failed to commit container"],
      [word |-> "cp", extra |-> 2, done |-> "", fail |-> "Failed to copy from container"],
      [word |-> "diff", extra |-> 0, done |-> "", fail |-> "Failed to get container diff"],
      [word |-> "export", extra |-> 1, done |-> "exported", fail |-> "Failed to export container"],
      [word |-> "kill", extra |-> 0, done |-> "killed", fail |-> "Failed to kill container"],
      [word |-> "port", extra |-> 0, done |-> "", fail |-> "Failed to get container ports"],
      [word |-> "rename", extra |-> 1, done |-> "", fail |-> "Failed to rename container"],
      [word |-> "update", extra |-> 0, done |-> "updated", fail |-> "Failed to update container"],
      [word |-> "wait", extra |-> 0, done |-> "", fail |-> "Failed to wait for container"]>>

\* The image sub-menu's actions
image_actions ==
    <<[word |-> "remove", extra |-> 0, done |-> "removed", fail |-> "Failed to remove image"],
      [word |-> "tag", extra |-> 1, done |-> "", fail |-> "Failed to tag image"],
      [word |-> "push", extra |-> 0, done |-> "pushed", fail |-> "Failed to push image"],
      [word |-> "history", extra |-> 0, done |-> "", fail |-> "Failed to get image history"],
      [word |-> "save", extra |-> 1, done |-> "", fail |-> "Failed to save image"]>>

\* The match arm of the sub-menu that parts selects: the row whose word is
\* parts[0] and whose pattern has as many elements as parts
arm_of(actions, parts) ==
    {row \in Range(actions) :
        Len(parts) = 2 + row.extra /\ parts[1] = row.word}

\* The docker command line a container action spawns
container_request(word, name, args) ==
    CASE word = "remove" -> "docker rm " \o name
      [] word = "logs" -> "docker logs --tail 50 " \o name
      [] word = "exec" -> "docker exec " \o name \o " sh -c " \o args[1]
      [] word = "info" -> "docker inspect " \o name
      [] word = "commit" -> "docker commit " \o args[1] \o " " \o name
      [] word = "cp" -> "docker cp " \o name \o ":" \o args[1] \o " " \o args[2]
      [] word = "export" -> "docker export -o " \o args[1] \o " " \o name
      [] word = "rename" -> "docker rename " \o name \o " " \o args[1]
      [] OTHER -> "docker " \o word \o " " \o name

\* The docker command line an image action spawns
image_request(word, name, args) ==
    CASE word = "remove" -> "docker rmi " \o name
      [] word = "tag" -> "docker tag " \o name \o " " \o args[1]
      [] word = "save" -> "docker save -o " \o args[1] \o " " \o name
      [] OTHER -> "docker " \o word \o " " \o name

Shown(kind, text) == [kind |-> kind, text |-> text]
Nothing == Shown("none", "")

\* What a container action prints when the engine call succeeded
container_success(row, name, args) ==
    CASE row.done # "" ->
            Shown("success", "Container '" \o name \o "' " \o row.done \o " successfully")
      [] row.word = "attach" -> Shown("success", "Attached to container '" \o name \o "'")
      [] row.word = "cp" ->
            Shown("success", "Copied from container '" \o name \o "' successfully")
      [] row.word = "rename" ->
            Shown("success", "Container renamed successfully from '" \o name
                             \o "' to '" \o args[1] \o "'")
      [] row.word = "wait" ->
            Shown("success", "Container '" \o name \o "' exited with code: 0")
      [] OTHER -> Shown("output", "")

\* What an image action prints when the engine call succeeded
image_success(row, name, args) ==
    CASE row.done # "" ->
            Shown("success", "Image '" \o name \o "' " \o row.done \o " successfully")
      [] row.word = "tag" ->
            Shown("success", "Image tagged successfully as '" \o args[1] \o "'")
      [] row.word = "save" ->
            Shown("success", "Image '" \o name \o "' saved successfully to '"
                             \o args[1] \o "'")
      [] OTHER -> Shown("output", "")

\* The engine's container list after a request on name that succeeded
RECURSIVE without(_, _)
without(list, x) ==
    IF list = <<>> THEN <<>>
    ELSE (IF Head(list) = x THEN <<>> ELSE <<Head(list)>>) \o without(Tail(list), x)

containers_after(word, name, args, containers) ==
    CASE word = "remove" -> without(containers, name)
      [] word = "rename" ->
            [i \in DOMAIN containers |->
                IF containers[i] = name THEN args[1] ELSE containers[i]]
      [] OTHER -> containers

\* Whether the engine can carry out a container request at all
container_request_possible(word, name, args, containers) ==
    /\ name \in Range(containers)
    /\ word = "rename" => args[1] \notin Range(containers)

\* The engine's image list after a request on name that succeeded
image_of(images, name) == CHOOSE i \in Range(images) : image_name(i) = name

images_after(word, name, args, images) ==
    CASE word = "remove" -> without(images, image_of(images, name))
      [] word = "tag" ->
            LET new == [repository |-> args[1], tag |-> "latest"]
            IN IF new \in Range(images) THEN images ELSE Append(images, new)
      [] OTHER -> images

image_request_possible(word, name, args, images) ==
    \E i \in Range(images) : image_name(i) = name

\* What one iteration of a loop did: where the line was read, the line, the
\* answer given to a confirmation prompt, the result of the readiness check
\* made within the iteration, every subprocess spawned, the list entry the
\* number resolved to, the last message printed, and whether the engine call
\* succeeded
Did(at, input, answer, ready, calls, target, shown, ok) ==
    [at |-> at, input |-> input, answer |-> answer, ready |-> ready,
     calls |-> calls, target |-> target, shown |-> shown, ok |-> ok]

NoLast == Did("none", "", "", "none", <<>>, "", Nothing, FALSE)

\* The slice the sub-menu holds, after a command of the sub-menu
snapshot_refreshed(list, engine_list) == engine_list
snapshot_after(list, engine_list) == list

\* A sub-menu whose loop would also end on an exit directive
menu_break_on_exit(input) == input \in {"back", "exit", "quit"}

\* `if input == "back" { break; }` of both sub-menus, on the trimmed line
menu_break(input) == input = "back"

\* What handle_interactive_container_menu does with one line: containers is
\* the slice it was called with, engine what the engine holds, answer the
\* reply to a confirmation prompt, ok whether the engine would carry out a
\* request that it can carry out
container_menu_line(input, answer, ok, containers, engine) ==
    LET t == trim(input)
        parts == split_whitespace(t)
        arm == arm_of(container_actions, parts)
        Stay(did) == [leave |-> FALSE, did |-> did, engine |-> engine]
        Reject(text) ==
            Stay(Did("ContainerMenu", input, "", "none", <<>>, "", Shown("error", text), FALSE))
    IN
    IF menu_break(t)
    THEN [leave |-> TRUE, engine |-> engine,
          did |-> Did("ContainerMenu", input, "", "none", <<>>, "", Nothing, FALSE)]
    ELSE IF arm = {}
    THEN Reject("Invalid action. Use 'back' to return to main menu.")
    ELSE
    LET row == CHOOSE r \in arm : TRUE
        index == parse_usize(parts[2])
        args == SubSeq(parts, 3, Len(parts))
    IN
    IF index < 0 THEN Reject("Invalid number format")
    ELSE IF ~index_in_range(index, Len(containers)) THEN Reject("Invalid container number")
    ELSE
    LET name == element_at(containers, index)
        request == container_request(row.word, name, args)
        done == ok /\ container_request_possible(row.word, name, args, engine)
    IN
    IF row.word = "remove" /\ ~confirm(answer)
    THEN Stay(Did("ContainerMenu", input, answer, "none", <<>>, name, Nothing, FALSE))
    ELSE [leave |-> FALSE,
          engine |-> IF done THEN containers_after(row.word, name, args, engine)
                     ELSE engine,
          did |-> Did("ContainerMenu", input,
                      IF row.word = "remove" THEN answer ELSE "",
                      "none", <<request>>, name,
                      IF done THEN container_success(row, name, args)
                      ELSE Shown("error", row.fail),
                      done)]

\* What handle_interactive_image_menu does with one line
image_menu_line(input, answer, ok, images, engine) ==
    LET t == trim(input)
        parts == split_whitespace(t)
        arm == arm_of(image_actions, parts)
        Stay(did) == [leave |-> FALSE, did |-> did, engine |-> engine]
        Reject(text) ==
            Stay(Did("ImageMenu", input, "", "none", <<>>, "", Shown("error", text), FALSE))
    IN
    IF menu_break(t)
    THEN [leave |-> TRUE, engine |-> engine,
          did |-> Did("ImageMenu", input, "", "none", <<>>, "", Nothing, FALSE)]
    ELSE IF arm = {}
    THEN Reject("Invalid action. Use 'back' to return to main menu.")
    ELSE
    LET row == CHOOSE r \in arm : TRUE
        index == parse_usize(parts[2])
        args == SubSeq(parts, 3, Len(parts))
    IN
    IF index < 0 THEN Reject("Invalid number format")
    ELSE IF ~index_in_range(index, Len(images)) THEN Reject("Invalid image number")
    ELSE
    LET name == image_name(element_at(images, index))
        request == image_request(row.word, name, args)
        done == ok /\ image_request_possible(row.word, name, args, engine)
    IN
    IF row.word = "remove" /\ ~confirm(answer)
    THEN Stay(Did("ImageMenu", input, answer, "none", <<>>, name, Nothing, FALSE))
    ELSE [leave |-> FALSE,
          engine |-> IF done THEN images_after(row.word, name, args, engine) ELSE engine,
          did |-> Did("ImageMenu", input,
                      IF row.word = "remove" THEN answer ELSE "",
                      "none", <<request>>, name,
                      IF done THEN image_success(row, name, args)
                      ELSE Shown("error", row.fail),
                      done)]

\* The engine-backed commands of the dui> prompt: the client function called,
\* whether that function begins with ensure_docker_is_running()?, the docker
\* command line it spawns, and the error message of the match arm
shell_commands ==
    <<[word |-> "containers", checked |-> TRUE, fail |-> "Failed to list containers",
       request |-> "docker ps -a --format json"],
      [word |-> "images", checked |-> TRUE, fail |-> "Failed to list images",
       request |-> "docker images --format json"],
      [word |-> "networks", checked |-> FALSE, fail |-> "Failed to list networks",
       request |-> "docker network ls --format json"],
      [word |-> "volumes", checked |-> FALSE, fail |-> "Failed to list volumes",
       request |-> "docker volume ls --format json"],
      [word |-> "stats", checked |-> TRUE, fail |-> "Failed to get stats",
       request |-> "docker stats --no-stream --format json"],
      [word |-> "system", checked |-> TRUE, fail |-> "Failed to get system info",
       request |-> "docker system info"],
      [word |-> "events", checked |-> FALSE, fail |-> "Failed to monitor events",
       request |-> "docker events"],
      [word |-> "dashboard", checked |-> TRUE, fail |-> "Failed to get stats",
       request |-> "docker stats --no-stream --format json"],
      [word |-> "charts", checked |-> TRUE, fail |-> "Failed to get stats",
       request |-> "docker stats --no-stream --format json"],
      [word |-> "cpu-chart", checked |-> TRUE, fail |-> "Failed to get stats",
       request |-> "docker stats --no-stream --format json"],
      [word |-> "memory-chart", checked |-> TRUE, fail |-> "Failed to get stats",
       request |-> "docker stats --no-stream --format json"],
      [word |-> "pie-chart", checked |-> TRUE, fail |-> "Failed to get stats",
       request |-> "docker stats --no-stream --format json"]>>

\* A client function of docker.rs called from the prompt: the readiness check
\* when the function makes one, then the command; ok is whether the command
\* ran and exited zero
client_call(row, env, ok) ==
    LET ready == IF row.checked THEN ensure_docker_is_running(env)
                 ELSE Done("none", <<>>)
    IN IF ready.result \notin {"none", "Ok"}
       THEN [ready |-> ready.result, calls |-> ready.calls, ok |-> FALSE]
       ELSE [ready |-> ready.result, calls |-> Append(ready.calls, row.request),
             ok |-> ok]

\* The loop the program is in once the client function of a match arm has
\* returned: the sub-menu of a listing that succeeded, else the prompt again
loop_after_fatal(word, ok) ==
    CASE ok /\ word = "containers" -> "ContainerMenu"
      [] ok /\ word = "images" -> "ImageMenu"
      [] OTHER -> IF ok THEN "Reading" ELSE "Terminal"
loop_after(word, ok) ==
    CASE ok /\ word = "containers" -> "ContainerMenu"
      [] ok /\ word = "images" -> "ImageMenu"
      [] OTHER -> "Reading"

\* What run_interactive_mode does with one line read at the dui> prompt:
\* next is the loop the program is in afterwards
interactive_line(ln, env, ok) ==
    LET input == trim(ln)
        parts == split_whitespace(input)
        Quiet(next, shown) ==
            [next |-> next,
             did |-> Did("Reading", ln, "", "none", <<>>, "", shown, FALSE)]
        rows == {r \in Range(shell_commands) : parts = <<r.word>>}
    IN
    IF input = "" THEN Quiet("Reading", Nothing)
    ELSE IF parts \in {<<"exit">>, <<"quit">>} THEN Quiet("Terminal", Shown("info", "Goodbye!"))
    ELSE IF parts = <<"help">> THEN Quiet("Reading", Shown("help", ""))
    ELSE IF rows = {}
    THEN Quiet("Reading",
               Shown("error", "Unknown command. Type 'help' for available commands."))
    ELSE
    LET row == CHOOSE r \in rows : TRUE
        call == client_call(row, env, ok)
    IN [next |-> loop_after(row.word, call.ok),
        did |-> Did("Reading", ln, "", call.ready, call.calls, "",
                    IF call.ok THEN Shown("output", "") ELSE Shown("error", row.fail),
                    call.ok)]

\* What run_interactive_mode does when readline fails
interactive_error_eof_ignored(err) ==
    [next |-> IF err = "Io" THEN "Terminal" ELSE "Reading",
     did |-> Did("Reading", "", "", "none", <<>>, "",
                 IF err = "Io" THEN Shown("error", "Error reading input")
                 ELSE Shown("info", "Use Ctrl-D or type 'exit' to quit."), FALSE)]
interactive_error(err) ==
    CASE err = "Interrupted" ->
            [next |-> "Reading",
             did |-> Did("Reading", "", "", "none", <<>>, "",
                         Shown("info", "Use Ctrl-D or type 'exit' to quit."), FALSE)]
      [] err = "Eof" ->
            [next |-> "Terminal",
             did |-> Did("Reading", "", "", "none", <<>>, "",
                         Shown("info", "Goodbye!"), FALSE)]
      [] OTHER ->
            [next |-> "Terminal",
             did |-> Did("Reading", "", "", "none", <<>>, "",
                         Shown("error", "Error reading input"), FALSE)]

(***************************************************************************)
(* The prober on its own: one call of ensure_docker_is_running per step,   *)
(* each in a world drawn from Envs.                                        *)
(***************************************************************************)

\* No run of the program and no library call is on record
NoInvocation == [argv |-> <<"-">>, exit |-> "none"]
NoEvaluation == [of |-> "none"]

Idle ==
    /\ line = ""
    /\ pos = 0
    /\ completion = NoCompletion
    /\ mode = "Reading"
    /\ engine_containers = <<>>
    /\ engine_images = <<>>
    /\ snapshot = <<>>
    /\ entered = <<>>
    /\ last = NoLast
    /\ input_ended = FALSE
    /\ invocation = NoInvocation
    /\ evaluation = NoEvaluation

InitReady == ready_run = NoRun /\ Idle

\* A caller calls ensure_docker_is_running
EnsureCall(env) ==
    /\ ~Ran
    /\ ready_run' = [env |-> env] @@ ensure_docker_is_running(env)
    /\ UNCHANGED <<line, pos, completion, mode, engine_containers, engine_images,
                   snapshot, entered, last>>
    /\ UNCHANGED <<input_ended, invocation, evaluation>>

\* The call has returned to its caller; nothing of it is retained
EnsureReturn ==
    /\ Ran
    /\ ready_run' = NoRun
    /\ UNCHANGED <<line, pos, completion, mode, engine_containers, engine_images,
                   snapshot, entered, last>>
    /\ UNCHANGED <<input_ended, invocation, evaluation>>

NextReady == (\E env \in Envs : EnsureCall(env)) \/ EnsureReturn

SpecReady == InitReady /\ [][NextReady]_vars

(***************************************************************************)
(* The line editor with its completer: the user types a line character by  *)
(* character, may move the cursor back, and presses TAB.                   *)
(***************************************************************************)

\* How many containers and images the engine holds at the start
MaxContainers == 5
MaxImages == 2
\* How many characters the cursor may be moved back from the end of the line
MaxLeft == 2

ContainerNames == <<"web", "db", "web2", "cache", "api", "job", "web3">>
ImageRecords ==
    <<[repository |-> "nginx", tag |-> "latest"], [repository |-> "redis", tag |-> "7"],
      [repository |-> "node", tag |-> "20"], [repository |-> "nginx", tag |-> "1.25"]>>

InitialContainers == SubSeq(ContainerNames, 1, MaxContainers)
InitialImages == SubSeq(ImageRecords, 1, MaxImages)

\* The lines the user may be typing
TypedLines ==
    Range(get_commands)
    \cup {"containers " \o sub : sub \in Range(container_subcommands)}
    \cup {"images " \o sub : sub \in Range(image_subcommands)}
    \cup {"monitor " \o sub : sub \in Range(monitor_subcommands)}
    \cup {"xyz", " st", "st ", "Start", "networks ls", "volumes ", "foo bar",
          "containers  st", "containers\tst", "images zz",
          "containers start web2", "containers exec d", "containers rename w",
          "containers create w", "images pull nginx:l", "images tag r",
          "images build ./", "images load /t", "networks ls w", "images list n",
          "containers exec web ls", "containers kill web SIGK",
          "containers start web x", "images tag nginx:latest v1",
          "containers commit web myapp la", "containers cp web /etc/ ./",
          "images import f.tar redis pr", "containers exec web ls -l",
          "containers cp web a b c d", "containers start ", "images remove ",
          "containers list ", "containers exec web ", "containers exec web ls ",
          "containers commit web myapp la ", "a b c d e f", "networks ls  "}

InitComplete ==
    /\ ready_run = NoRun
    /\ line = ""
    /\ pos = 0
    /\ completion = NoCompletion
    /\ mode = "Reading"
    /\ \E held \in BOOLEAN :
        /\ engine_containers = IF held THEN InitialContainers ELSE <<>>
        /\ engine_images = IF held THEN InitialImages ELSE <<>>
    /\ snapshot = <<>>
    /\ entered = <<>>
    /\ last = NoLast
    /\ input_ended = FALSE
    /\ invocation = NoInvocation
    /\ evaluation = NoEvaluation

\* A key is typed at the end of the line
TypeChar ==
    /\ ~Answered
    /\ pos = Len(line)
    /\ \E l \in TypedLines :
        /\ Len(l) > Len(line)
        /\ starts_with(l, line)
        /\ line' = SubSeq(l, 1, Len(line) + 1)
    /\ pos' = pos + 1
    /\ UNCHANGED <<ready_run, completion, mode, engine_containers, engine_images,
                   snapshot, entered, last>>
    /\ UNCHANGED <<input_ended, invocation, evaluation>>

\* The cursor is moved one character back
CursorLeft ==
    /\ ~Answered
    /\ pos > 0
    /\ Len(line) - pos < MaxLeft
    /\ pos' = pos - 1
    /\ UNCHANGED <<ready_run, line, completion, mode, engine_containers,
                   engine_images, snapshot, entered, last>>
    /\ UNCHANGED <<input_ended, invocation, evaluation>>

\* TAB: the editor calls complete(line, pos)
Tab(env, list_ok) ==
    /\ ~Answered
    /\ completion' = complete(line, pos,
                              [env |-> env, list_ok |-> list_ok,
                               containers |-> engine_containers,
                               images |-> engine_images])
    /\ UNCHANGED <<ready_run, line, pos, mode, engine_containers, engine_images,
                   snapshot, entered, last>>
    /\ UNCHANGED <<input_ended, invocation, evaluation>>

\* The next key takes the candidate list off the screen
Dismiss ==
    /\ Answered
    /\ completion' = NoCompletion
    /\ UNCHANGED <<ready_run, line, pos, mode, engine_containers, engine_images,
                   snapshot, entered, last>>
    /\ UNCHANGED <<input_ended, invocation, evaluation>>

\* The line is submitted and the editor starts a new one
NewLine ==
    /\ ~Answered
    /\ line # ""
    /\ line' = ""
    /\ pos' = 0
    /\ UNCHANGED <<ready_run, completion, mode, engine_containers, engine_images,
                   snapshot, entered, last>>
    /\ UNCHANGED <<input_ended, invocation, evaluation>>

NextComplete ==
    \/ TypeChar
    \/ CursorLeft
    \/ \E env \in ListingEnvs, list_ok \in BOOLEAN : Tab(env, list_ok)
    \/ Dismiss
    \/ NewLine

SpecComplete == InitComplete /\ [][NextComplete]_vars

(***************************************************************************)
(* The interactive shell: the dui> prompt and the two numbered sub-menus.  *)
(* Each action is one iteration of the loop the program is in; LoopAgain   *)
(* is the return to the head of that loop.                                 *)
(***************************************************************************)

\* How many requests that change what the engine holds may succeed
MaxEngineChanges == 1

\* How far what the engine holds is from what it held at the start
EngineChanges(containers, images) ==
    Cardinality(Range(InitialContainers) \ Range(containers))
    + Cardinality(Range(InitialImages) \ Range(images))
    + Cardinality(Range(images) \ Range(InitialImages))

Join(parts) ==
    LET RECURSIVE join(_)
        join(ps) == IF Len(ps) = 1 THEN ps[1] ELSE ps[1] \o " " \o join(Tail(ps))
    IN join(parts)

\* The arguments the user gives after the number
ArgsFor(word) ==
    CASE word = "exec" -> <<"ls">>
      [] word = "commit" -> <<"myrepo">>
      [] word = "cp" -> <<"/etc", "/tmp">>
      [] word = "export" -> <<"out.tar">>
      [] word = "rename" -> <<"spare">>
      [] word = "tag" -> <<"v2">>
      [] word = "save" -> <<"out.tar">>
      [] OTHER -> <<>>

\* What the user may type where a number is expected: every number from 0
\* to one past the end of the list and some non-numbers after the words of
\* FullyIndexed, the ends of the list and one non-number after the others
FullyIndexed == {"start"}

IndexTokens(word, len) ==
    IF word \in FullyIndexed
    THEN {to_string(i) : i \in 0..(len + 1)} \cup {"abc", "-1", "+1", "1x"}
    ELSE {"0", "1", to_string(len), to_string(len + 1), "abc"}

MenuInputs(actions, len) ==
    {Join(<<pair[1].word, pair[2]>> \o ArgsFor(pair[1].word)) :
        pair \in {p \in Range(actions) \X IndexTokens("start", len) :
                    p[2] \in IndexTokens(p[1].word, len)}}
    \cup {"back", "  back ", "Back", "", "exit", "quit", "containers start 3", "start",
          "start 1 now", "exec 1", "list 1", "start  2"}

\* What the user may answer when asked to confirm
Answers == {"y", "yes", " Y ", "n", ""}
AnswersTo(input) == IF first_word(trim(input)) = "remove" THEN Answers ELSE {""}

\* The command forms show_interactive_help prints, in its order
help_commands ==
    <<"containers", "start <name>", "stop <name>", "restart <name>", "pause <name>",
      "unpause <name>", "remove <name>", "logs <name>", "exec <name> <cmd>",
      "inspect <name>", "top <name>", "attach <name>", "commit <name> <repo>",
      "cp <name> <src> <dest>", "diff <name>", "export <name> <file>", "kill <name>",
      "port <name>", "rename <old> <new>", "update <name>", "wait <name>",
      "images", "pull <name>", "build <path> <tag>", "tag <source> <target>",
      "push <name>", "remove <name>", "history <name>", "import <file> <repo>",
      "load <file>", "save <name> <file>",
      "networks", "volumes",
      "stats", "system", "events", "dashboard", "charts",
      "cpu-chart", "memory-chart", "pie-chart",
      "help", "exit", "quit">>

\* A line typed after a command form: each <placeholder> replaced by a word
typed_as(form) ==
    LET words == split_whitespace(form)
    IN Join([i \in DOMAIN words |->
                IF starts_with(words[i], "<") THEN "web" ELSE words[i]])

PromptInputs ==
    {row.word : row \in Range(shell_commands)}
    \cup {typed_as(form) : form \in Range(help_commands)}
    \cup {"exit", "quit", "help", "", "  ", " containers ", "containers list",
          "start web", "Exit", "back"}

Init ==
    /\ ready_run = NoRun
    /\ line = ""
    /\ pos = 0
    /\ completion = NoCompletion
    /\ mode = "Reading"
    /\ engine_containers = InitialContainers
    /\ engine_images = InitialImages
    /\ snapshot = <<>>
    /\ entered = <<>>
    /\ last = NoLast
    /\ input_ended = FALSE
    /\ invocation = NoInvocation
    /\ evaluation = NoEvaluation

\* editor.readline("dui> ") returns a line and its match arm runs
ReadLine(ln, env, ok) ==
    /\ mode = "Reading"
    /\ last = NoLast
    /\ ~input_ended
    /\ LET step == interactive_line(ln, env, ok)
           listed == CASE step.next = "ContainerMenu" -> engine_containers
                       [] step.next = "ImageMenu" -> engine_images
                       [] OTHER -> <<>>
       IN /\ last' = step.did
          /\ mode' = step.next
          /\ snapshot' = listed
          /\ entered' = listed
    /\ UNCHANGED <<ready_run, line, pos, completion, engine_containers, engine_images>>
    /\ UNCHANGED <<input_ended, invocation, evaluation>>

\* editor.readline("dui> ") fails; at end-of-input it fails with Eof
ReadError(err) ==
    /\ mode = "Reading"
    /\ last = NoLast
    /\ input_ended => err = "Eof"
    /\ LET step == interactive_error(err)
       IN last' = step.did /\ mode' = step.next
    /\ UNCHANGED <<ready_run, line, pos, completion, engine_containers, engine_images,
                   snapshot, entered>>
    /\ UNCHANGED <<input_ended, invocation, evaluation>>

\* One line read by handle_interactive_container_menu. Standard input carries
\* lines of text; at end-of-input read_line returns Ok(0) and leaves the
\* buffer empty, here and in confirm
ContainerMenuLine(input, answer, ok) ==
    /\ mode = "ContainerMenu"
    /\ last = NoLast
    /\ input_ended => input = "" /\ answer = ""
    /\ LET step == container_menu_line(input, answer, ok, snapshot, engine_containers)
       IN /\ step.engine # engine_containers =>
                EngineChanges(engine_containers, engine_images) < MaxEngineChanges
          /\ last' = step.did
          /\ engine_containers' = step.engine
          /\ mode' = IF step.leave THEN "Reading" ELSE mode
          /\ snapshot' = IF step.leave THEN <<>> ELSE snapshot_after(snapshot, step.engine)
          /\ entered' = IF step.leave THEN <<>> ELSE entered
    /\ UNCHANGED <<ready_run, line, pos, completion, engine_images>>
    /\ UNCHANGED <<input_ended, invocation, evaluation>>

\* One line read by handle_interactive_image_menu
ImageMenuLine(input, answer, ok) ==
    /\ mode = "ImageMenu"
    /\ last = NoLast
    /\ input_ended => input = "" /\ answer = ""
    /\ LET step == image_menu_line(input, answer, ok, snapshot, engine_images)
       IN /\ step.engine # engine_images =>
                EngineChanges(engine_containers, engine_images) < MaxEngineChanges
          /\ last' = step.did
          /\ engine_images' = step.engine
          /\ mode' = IF step.leave THEN "Reading" ELSE mode
          /\ snapshot' = IF step.leave THEN <<>> ELSE snapshot_after(snapshot, step.engine)
          /\ entered' = IF step.leave THEN <<>> ELSE entered
    /\ UNCHANGED <<ready_run, line, pos, completion, engine_containers>>
    /\ UNCHANGED <<input_ended, invocation, evaluation>>

\* The loop comes round to read the next line
LoopAgain ==
    /\ mode # "Terminal"
    /\ last # NoLast
    /\ last' = NoLast
    /\ UNCHANGED <<ready_run, line, pos, completion, mode, engine_containers,
                   engine_images, snapshot, entered>>
    /\ UNCHANGED <<input_ended, invocation, evaluation>>

\* Standard input reaches end-of-input while a prompt is waiting
EndOfInput ==
    /\ mode \in {"Reading", "ContainerMenu", "ImageMenu"}
    /\ last = NoLast
    /\ ~input_ended
    /\ input_ended' = TRUE
    /\ UNCHANGED <<ready_run, line, pos, completion, mode, engine_containers,
                   engine_images, snapshot, entered, last, invocation, evaluation>>

Next ==
    \/ \E ln \in PromptInputs, env \in ListingEnvs, ok \in BOOLEAN : ReadLine(ln, env, ok)
    \/ \E err \in {"Interrupted", "Eof", "Io"} : ReadError(err)
    \/ \E input \in MenuInputs(container_actions, Len(snapshot)) :
         \E answer \in AnswersTo(input), ok \in BOOLEAN :
            ContainerMenuLine(input, answer, ok)
    \/ \E input \in MenuInputs(image_actions, Len(snapshot)) :
         \E answer \in AnswersTo(input), ok \in BOOLEAN :
            ImageMenuLine(input, answer, ok)
    \/ LoopAgain
    \/ EndOfInput

Spec == Init /\ [][Next]_vars

\* Once standard input has ended no read waits for the user: every read
\* returns at once and the loop that made it runs on
FairSpec == Spec /\ WF_vars(input_ended /\ Next)

(***************************************************************************)
(* Reading a call trace                                                    *)
(***************************************************************************)

StartCommands ==
    Range(LinuxStrategies) \cup Range(MacosStrategies) \cup Range(WindowsStrategies)

\* The positions of the start commands in a trace
StartsIn(calls) == {i \in DOMAIN calls : calls[i] \in StartCommands}

\* The position of the last start command, 0 without one
LastStart(calls) ==
    IF StartsIn(calls) = {} THEN 0
    ELSE CHOOSE i \in StartsIn(calls) : \A j \in StartsIn(calls) : j <= i

\* What the trace holds after its last start command: the wait loop's part
AfterStart(calls) == SubSeq(calls, LastStart(calls) + 1, Len(calls))

\* The rank of a start command in its platform's order
Rank(os, cmd) == CHOOSE k \in DOMAIN Strategies(os) : Strategies(os)[k] = cmd

\* The start command reported success: it ran and exited zero
ReportedSuccess(env, cmd) == env.outcome[Rank(env.os, cmd)] = "exit_ok"

SecondsSlept(calls) == delay * Cardinality({i \in DOMAIN calls : calls[i] = Sleep})

\* The readiness errors that mean the daemon could not be started
CannotStartErrors == {"CannotStart", "StartFailed", "Unsupported"}

(***************************************************************************)
(* Claims about the readiness prober, checked under SpecReady              *)
(***************************************************************************)

\* C1: once a start command has reported success, the wait loop alternates
\* liveness polls and sleeps of the fixed delay, starting and ending with a
\* poll; with no poll live it makes exactly max_attempts polls and returns the
\* timeout error; with a live poll it returns success at the first live poll,
\* which is the last call of the trace.
C1_WaitLoopBudget ==
    Ran =>
        LET env == ready_run.env
            calls == ready_run.calls
            k == LastStart(calls)
            w == AfterStart(calls)
        IN (k > 0 /\ ReportedSuccess(env, calls[k])) =>
            /\ \A i \in DOMAIN w : w[i] = (IF i % 2 = 1 THEN DockerInfo ELSE Sleep)
            /\ Len(w) % 2 = 1
            /\ env.liveFrom > max_attempts + 1 =>
                /\ ready_run.result = "Timeout"
                /\ NumProbes(w) = max_attempts
                /\ SecondsSlept(w) = delay * (max_attempts - 1)
            /\ env.liveFrom <= max_attempts + 1 =>
                /\ ready_run.result = "Ok"
                /\ NumProbes(w) = env.liveFrom - 1
                /\ \A i \in DOMAIN w :
                       w[i] = DockerInfo =>
                           (is_docker_daemon_running(env, 1 + (i + 1) \div 2) <=> i = Len(w))

C1_Witness ==
    /\ Ran
    /\ ready_run.result = "Timeout"
    /\ ReportedSuccess(ready_run.env, ready_run.calls[LastStart(ready_run.calls)])
    /\ NumProbes(AfterStart(ready_run.calls)) = max_attempts

\* C2: with the binary invocable and the daemon live, ensure_docker_is_running
\* returns success after the version check and one liveness probe: no start
\* command, no further probe, no sleep.
C2_LiveReturnsAtOnce ==
    (Ran /\ ready_run.env.installed /\ ready_run.env.liveFrom = 1) =>
        /\ ready_run.result = "Ok"
        /\ ready_run.calls = <<DockerVersion, DockerInfo>>

C2_Witness ==
    /\ Ran
    /\ ready_run.env.installed
    /\ ready_run.env.liveFrom = 1
    /\ ready_run.result = "Ok"

\* C3: when the binary cannot be invoked, ensure_docker_is_running fails with
\* the not-installed error after the version check alone: no liveness probe, no
\* start command, no sleep.
C3_NotInstalledFailsAtOnce ==
    (Ran /\ ~ready_run.env.installed) =>
        /\ ready_run.result = "NotInstalled"
        /\ ready_run.calls = <<DockerVersion>>

C3_Witness ==
    /\ Ran
    /\ ~ready_run.env.installed
    /\ ready_run.result = "NotInstalled"

\* C4: with the daemon not live, the start commands are tried in the platform's
\* order; a liveness poll of the wait loop comes only after a start command that
\* reported success, no start command is tried after one that reported success,
\* and when no start command reported success the call returns a cannot-start
\* error having made no poll beyond the first probe.
C4_StartSequence ==
    (Ran /\ ready_run.env.installed /\ ready_run.env.liveFrom > 1) =>
        LET env == ready_run.env
            calls == ready_run.calls
            starts == StartsIn(calls)
        IN /\ \A i, j \in starts :
                  i < j => Rank(env.os, calls[i]) < Rank(env.os, calls[j])
           /\ \A p \in DOMAIN calls :
                  (p > 2 /\ calls[p] = DockerInfo) =>
                      \E s \in starts : s < p /\ ReportedSuccess(env, calls[s])
           /\ \A s \in starts :
                  ReportedSuccess(env, calls[s]) => \A t \in starts : t <= s
           /\ (\A s \in starts : ~ReportedSuccess(env, calls[s])) =>
                  /\ ready_run.result \in CannotStartErrors
                  /\ NumProbes(calls) = 1

\* The same statement on Linux alone, where every start command is judged by
\* its exit status.
C4_StartSequenceLinux ==
    (Ran /\ ready_run.env.os = "linux") => C4_StartSequence

C4_LinuxWitness ==
    /\ Ran
    /\ ready_run.env.os = "linux"
    /\ ready_run.env.installed
    /\ ready_run.env.liveFrom > 1
    /\ ready_run.env.outcome = <<"exit_fail", "exit_ok", "exit_ok">>
    /\ ready_run.result = "Ok"

(***************************************************************************)
(* Reading what an iteration of the shell or of a sub-menu did             *)
(***************************************************************************)

\* A subprocess that asks the engine for something: neither a probe, nor a
\* pause, nor a start command of the prober
IsEngineRequest(call) ==
    call \notin ({DockerVersion, DockerInfo, Sleep} \cup StartCommands)

ListingQueries == {"docker ps -a --format json", "docker images --format json"}

InSubMenu == mode \in {"ContainerMenu", "ImageMenu"}
FromSubMenu == last.at \in {"ContainerMenu", "ImageMenu"}

\* The words of the line the iteration read
LastParts == split_whitespace(trim(last.input))

\* The line is an indexed action of the sub-menu it was read in, with the
\* arguments the action takes
IndexedCommand ==
    /\ FromSubMenu
    /\ \E row \in Range(IF last.at = "ContainerMenu" THEN container_actions
                        ELSE image_actions) :
        Len(LastParts) = 2 + row.extra /\ LastParts[1] = row.word

\* The number a token denotes, -1 when it denotes none
NumberOf(tok) ==
    LET ns == {n \in 0..(MaxContainers + 2) : tok \in {to_string(n), "+" \o to_string(n)}}
    IN IF ns = {} THEN -1 ELSE CHOOSE n \in ns : TRUE

TypedIndex == NumberOf(LastParts[2])

\* The name of the entry at position i of the list as it was on entry
EnteredName(i) ==
    IF last.at = "ContainerMenu" THEN entered[i] ELSE image_name(entered[i])

Contains(text, part) ==
    \E i \in 1..(Len(text) - Len(part) + 1) : SubSeq(text, i, i + Len(part) - 1) = part

(***************************************************************************)
(* Claims about the shell and its sub-menus, checked under Spec            *)
(***************************************************************************)

\* C5: every engine request of an iteration of the shell loop or of a
\* sub-menu comes after a readiness probe of that same iteration, in an
\* iteration whose readiness check succeeded; and an iteration whose
\* readiness check failed issues no engine request and shows an error.
C5_ReadinessBeforeRequest ==
    /\ \A i \in DOMAIN last.calls :
        IsEngineRequest(last.calls[i]) =>
            /\ last.ready = "Ok"
            /\ \E j \in 1..(i - 1) : last.calls[j] = DockerInfo
    /\ last.ready \notin {"none", "Ok"} =>
        /\ \A i \in DOMAIN last.calls : ~IsEngineRequest(last.calls[i])
        /\ last.shown.kind = "error"

\* The part of C5 that the commands calling ensure_docker_is_running keep:
\* an iteration that made a readiness check issues an engine request only
\* after the check succeeded, and shows an error when it failed.
C5_CheckedCommands ==
    last.ready # "none" =>
        /\ \A i \in DOMAIN last.calls :
            IsEngineRequest(last.calls[i]) =>
                last.ready = "Ok" /\ \E j \in 1..(i - 1) : last.calls[j] = DockerInfo
        /\ last.ready # "Ok" =>
            /\ \A i \in DOMAIN last.calls : ~IsEngineRequest(last.calls[i])
            /\ last.shown.kind = "error"

C5_CheckedWitness ==
    /\ last.ready \notin {"none", "Ok"}
    /\ last.shown.kind = "error"
    /\ last.calls # <<>>

\* C6: in both sub-menus an indexed action is accepted iff the index is a
\* number i with 1 <= i <= len(snapshot), and it then targets the entry at
\* position i of the list (element i-1 counting from 0); every other index
\* is rejected with an error shown, no subprocess spawned, and the sub-menu
\* still running.
C6_IndexAccepted ==
    IndexedCommand =>
        LET i == TypedIndex
            accepted == last.target # ""
        IN /\ accepted <=> (1 <= i /\ i <= Len(entered))
           /\ accepted => last.target = EnteredName(i)
           /\ ~accepted =>
                /\ last.shown.kind = "error"
                /\ last.calls = <<>>
                /\ mode = last.at

\* An action on the last entry of the image list was accepted and run
C6_Witness ==
    /\ last.at = "ImageMenu"
    /\ IndexedCommand
    /\ TypedIndex = Len(entered)
    /\ last.target = image_name(entered[Len(entered)])
    /\ last.calls # <<>>

\* An index one past the end of the container list was rejected
C6_RejectedWitness ==
    /\ last.at = "ContainerMenu"
    /\ IndexedCommand
    /\ TypedIndex = Len(entered) + 1
    /\ last.shown = Shown("error", "Invalid container number")

\* C7 as stated: in the container sub-menu with a 5-element snapshot, the
\* line "containers start 3" starts the third entry and, the engine having
\* started it, prints a success message containing its name.
C7_ContainersStart3 ==
    (last.at = "ContainerMenu" /\ Len(entered) = 5 /\ last.input = "containers start 3") =>
        /\ last.calls = <<"docker start " \o entered[3]>>
        /\ last.ok => last.shown.kind = "success" /\ Contains(last.shown.text, entered[3])

\* C7, amended: in the container sub-menu with a 5-element snapshot, the line
\* "start 3" spawns the start command on the third entry (element 2 counting
\* from 0) and, when the engine carries it out, prints a success message
\* containing that entry's name; the line "containers start 3" is no action of
\* the sub-menu: it is answered with "Invalid action" and spawns nothing.
C7_Start3 ==
    (last.at = "ContainerMenu" /\ Len(entered) = 5) =>
        /\ last.input = "start 3" =>
            /\ last.calls = <<"docker start " \o entered[3]>>
            /\ last.ok => /\ last.shown.kind = "success"
                          /\ Contains(last.shown.text, entered[3])
        /\ last.input = "containers start 3" =>
            /\ last.calls = <<>>
            /\ last.shown = Shown("error", "Invalid action. Use 'back' to return to main menu.")

C7_Witness ==
    /\ last.at = "ContainerMenu"
    /\ Len(entered) = 5
    /\ last.input = "start 3"
    /\ last.ok
    /\ last.shown = Shown("success", "Container 'web2' started successfully")

\* C8: while a sub-menu runs, the list it holds is the list it was entered
\* with, whatever the engine holds by now; a number resolves to the entry
\* that was at that position on entry; and no iteration of a sub-menu spawns
\* a listing query.
C8_SnapshotFixed ==
    /\ InSubMenu => snapshot = entered
    /\ FromSubMenu =>
        /\ \A i \in DOMAIN last.calls : last.calls[i] \notin ListingQueries
        /\ (IndexedCommand /\ last.target # "") => last.target = EnteredName(TypedIndex)

\* After a removal or a rename changed what the engine holds, a number still
\* resolved to an entry that the engine no longer has
C8_Witness ==
    /\ mode = "ContainerMenu"
    /\ engine_containers # entered
    /\ LastParts # <<>> /\ LastParts[1] = "start"
    /\ last.target # ""
    /\ last.target \notin Range(engine_containers)
    /\ last.calls # <<>>

\* The line read at the prompt consists of an exit directive
ExitLine(did) ==
    did.at = "Reading" /\ split_whitespace(trim(did.input)) \in {<<"exit">>, <<"quit">>}

\* C17: when the line read at the prompt is exit or quit, or readline reports
\* end-of-file, the loop ends; and once it has ended no line is read and no
\* action runs: no step is taken.
C17_ExitEndsLoop ==
    [][/\ mode # "Terminal"
       /\ ExitLine(last') => mode' = "Terminal"
       /\ ReadError("Eof") => mode' = "Terminal"]_vars

\* The loop has ended on end-of-file
C17_Witness ==
    /\ mode = "Terminal"
    /\ last.input = ""
    /\ last.shown = Shown("info", "Goodbye!")

\* The loop has ended on a line that is an exit directive
C17_ExitWitness == mode = "Terminal" /\ last.input = "quit"

ActionWords == {row.word : row \in Range(shell_commands)} \cup {"help", "exit", "quit"}

UnknownCommand == Shown("error", "Unknown command. Type 'help' for available commands.")

\* C19: what a line read at the prompt runs is decided by its first word: a
\* line whose first word is in the action table runs that action, and a line
\* whose first word is not in it prints the unknown-command message, spawns
\* nothing and leaves the shell at the prompt.
C19_FirstTokenDecides ==
    (last.at = "Reading" /\ LastParts # <<>>) =>
        IF LastParts[1] \in ActionWords
        THEN last.shown # UnknownCommand
        ELSE last.shown = UnknownCommand /\ last.calls = <<>> /\ mode = "Reading"

\* The part of C19 the code keeps: a line that is an action word and nothing
\* else runs that action, and a line whose first word is no action word is
\* answered with the unknown-command message, spawns nothing and leaves the
\* shell at the prompt.
C19_WholeLineDecides ==
    (last.at = "Reading" /\ LastParts # <<>>) =>
        /\ (Len(LastParts) = 1 /\ LastParts[1] \in ActionWords) => last.shown # UnknownCommand
        /\ LastParts[1] \notin ActionWords =>
            last.shown = UnknownCommand /\ last.calls = <<>> /\ mode = "Reading"

C19_UnknownWitness ==
    /\ last.at = "Reading"
    /\ last.input = "back"
    /\ last.shown = UnknownCommand
    /\ mode = "Reading"

\* C20: a line typed after any command form of the help text is accepted at
\* the prompt: it is not answered with the unknown-command message.
C20_HelpCommandsAccepted ==
    (last.at = "Reading" /\ \E form \in Range(help_commands) : last.input = typed_as(form)) =>
        last.shown # UnknownCommand

\* The part of C20 the code keeps: the command forms without an argument
C20_PlainCommandsAccepted ==
    (/\ last.at = "Reading"
     /\ \E form \in Range(help_commands) :
            last.input = typed_as(form) /\ Len(split_whitespace(form)) = 1) =>
        last.shown # UnknownCommand

C20_PlainWitness ==
    /\ last.at = "Reading"
    /\ last.input = "volumes"
    /\ last.ok
    /\ last.calls = <<"docker volume ls --format json">>

(***************************************************************************)
(* Reading a line as the grammar of the completion engine describes it     *)
(***************************************************************************)

\* The text before the cursor
Before == SubSeq(line, 1, pos)

CharAt(s, i) == SubSeq(s, i, i)

\* Where the token under the cursor starts (1-based): after the last whitespace
PartialStart(s) ==
    CHOOSE i \in 1..(Len(s) + 1) :
        /\ \A j \in i..Len(s) : ~is_whitespace(CharAt(s, j))
        /\ i = 1 \/ is_whitespace(CharAt(s, i - 1))

\* The partial token: what is typed of the token under the cursor, maybe nothing
PartialToken(s) == SubSeq(s, PartialStart(s), Len(s))

\* The complete tokens that precede the partial token
PrecedingTokens(s) == split_whitespace(SubSeq(s, 1, PartialStart(s) - 1))

\* The candidates are exactly the members of list that start with partial, in
\* the order of list (list holds no word twice)
ExactlyThoseOf(candidates, list, partial) ==
    /\ \A w \in Range(list) : w \in Range(candidates) <=> starts_with(w, partial)
    /\ Range(candidates) \subseteq Range(list)
    /\ \A i, j \in DOMAIN candidates :
           i < j => \E a, b \in DOMAIN list :
                        a < b /\ list[a] = candidates[i] /\ list[b] = candidates[j]

(***************************************************************************)
(* Claims about the completion engine, checked under SpecComplete          *)
(***************************************************************************)

\* C9: when no complete token precedes the cursor, the candidates are exactly
\* the top-level commands that start with the partial token, in the order of
\* get_commands: all of them when the partial token is empty.
C9_CommandCompletion ==
    (Answered /\ PrecedingTokens(Before) = <<>>) =>
        /\ ExactlyThoseOf(completion.completions, get_commands, PartialToken(Before))
        /\ PartialToken(Before) = "" => completion.completions = get_commands

C9_Witness ==
    /\ Answered
    /\ Before = "st"
    /\ completion.completions = <<"start", "stop", "stats">>

\* C10: when exactly one complete token precedes the cursor, the candidates are
\* exactly the subcommands of that command that start with the partial token,
\* in declared order: none for a command without subcommands, all of them when
\* the partial token is empty.
C10_SubcommandCompletion ==
    (Answered /\ Len(PrecedingTokens(Before)) = 1) =>
        ExactlyThoseOf(completion.completions,
                       subcommands(PrecedingTokens(Before)[1]),
                       PartialToken(Before))

\* The part of C10 the code keeps: a non-empty partial token
C10_NonEmptyPartial ==
    (Answered /\ Len(PrecedingTokens(Before)) = 1 /\ PartialToken(Before) # "") =>
        ExactlyThoseOf(completion.completions,
                       subcommands(PrecedingTokens(Before)[1]),
                       PartialToken(Before))

C10_Witness ==
    /\ Answered
    /\ Before = "containers st"
    /\ completion.completions = <<"start", "stop">>

\* The engine query of an entity-name position
IsListingQuery(call) == call \in ListingQueries

\* The subprocesses among the calls of a trace: all but the pauses
Subprocesses(calls) == {i \in DOMAIN calls : calls[i] # Sleep}

\* C11: with no image to be had (the engine lists none, or the listing fails),
\* TAB after "images " yields no candidate and no error.
C11_ImagesNoCandidates ==
    (Answered /\ Before = "images " /\ (engine_images = <<>> \/ completion.listed = "failed")) =>
        /\ ~completion.error
        /\ completion.completions = <<>>

\* The part of C11 the code keeps: where image names are completed, which
\* takes a partial name of at least one character, no image to be had yields
\* no candidate and no error.
C11_ImageNamesNoCandidates ==
    (/\ Answered
     /\ Len(PrecedingTokens(Before)) = 2
     /\ <<PrecedingTokens(Before)[1], PrecedingTokens(Before)[2]>> \in image_name_pairs
     /\ PartialToken(Before) # ""
     /\ (engine_images = <<>> \/ completion.listed = "failed")) =>
        /\ ~completion.error
        /\ completion.completions = <<>>

C11_ImageNamesWitness ==
    /\ Answered
    /\ Before = "images pull nginx:l"
    /\ completion.listed = "failed"
    /\ completion.completions = <<>>

\* The (command, subcommand) pairs for which something is suggested after them
GrammarPairs ==
    container_name_pairs \cup image_name_pairs
    \cup {<<"images", "build">>, <<"images", "import">>, <<"images", "load">>}

PrecedingPair == <<PrecedingTokens(Before)[1], PrecedingTokens(Before)[2]>>

\* C12: when two complete tokens precede the cursor and they are no pair of
\* the grammar table, there is no candidate and no subprocess is spawned.
C12_UnknownPairEmpty ==
    (Answered /\ Len(PrecedingTokens(Before)) = 2 /\ PrecedingPair \notin GrammarPairs) =>
        /\ completion.completions = <<>>
        /\ completion.calls = <<>>

\* The part of C12 the code keeps: a partial third token of at least one
\* character
C12_UnknownPairNonEmptyPartial ==
    (/\ Answered
     /\ Len(PrecedingTokens(Before)) = 2
     /\ PrecedingPair \notin GrammarPairs
     /\ PartialToken(Before) # "") =>
        /\ completion.completions = <<>>
        /\ completion.calls = <<>>

\* C13: complete returns Ok whatever the line and the cursor; and when the
\* listing it asked for failed (the readiness check or the docker command),
\* it returns no candidate.
C13_NeverAnError ==
    Answered =>
        /\ ~completion.error
        /\ completion.listed = "failed" => completion.completions = <<>>

\* Container names were asked for, the engine holds some that match, and the
\* listing failed
C13_Witness ==
    /\ Answered
    /\ Before = "containers start web2"
    /\ engine_containers # <<>>
    /\ completion.listed = "failed"
    /\ completion.completions = <<>>
    /\ ~completion.error

\* The offset just after the last space of s, 0 when s holds no space
AfterLastSpace(s) ==
    LET spaces == {i \in 1..Len(s) : CharAt(s, i) = " "}
    IN IF spaces = {} THEN 0 ELSE CHOOSE i \in spaces : \A j \in spaces : j <= i

\* C14: the offset complete returns is that of the start of the token under
\* the cursor: just after the last space before the cursor, 0 without one; so
\* the text from the offset to the cursor is the partial token, and holds no
\* whitespace.
C14_ReplaceFromTokenStart ==
    Answered =>
        /\ completion.replace_from = AfterLastSpace(Before)
        /\ SubSeq(Before, completion.replace_from + 1, pos) = PartialToken(Before)

\* The part of C14 the code keeps: from two to five words before the cursor,
\* separated by spaces
C14_FromSecondWord ==
    (/\ Answered
     /\ Len(split_whitespace(Before)) \in 2..5
     /\ \A i \in 1..Len(Before) : CharAt(Before, i) # "\t") =>
        completion.replace_from = AfterLastSpace(Before)

\* C15: with three complete tokens before the cursor the candidates are the
\* entries of the static list of the (command, subcommand) pair for the fourth
\* word that start with the partial token, with four those of the list for
\* the fifth word, and no subprocess is spawned; with more than four there is
\* no candidate.
C15_StaticDepth ==
    Answered =>
        LET n == Len(PrecedingTokens(Before)) IN
        /\ n = 3 =>
            /\ ExactlyThoseOf(completion.completions,
                              fourth_word_list(PrecedingPair[1], PrecedingPair[2]),
                              PartialToken(Before))
            /\ completion.calls = <<>>
        /\ n = 4 =>
            /\ ExactlyThoseOf(completion.completions,
                              fifth_word_list(PrecedingPair[1], PrecedingPair[2]),
                              PartialToken(Before))
            /\ completion.calls = <<>>
        /\ n > 4 => completion.completions = <<>>

\* The part of C15 the code keeps: a partial token of at least one character
C15_StaticDepthNonEmptyPartial ==
    (Answered /\ PartialToken(Before) # "") =>
        LET n == Len(PrecedingTokens(Before)) IN
        /\ n = 3 =>
            /\ ExactlyThoseOf(completion.completions,
                              fourth_word_list(PrecedingPair[1], PrecedingPair[2]),
                              PartialToken(Before))
            /\ completion.calls = <<>>
        /\ n = 4 =>
            /\ ExactlyThoseOf(completion.completions,
                              fifth_word_list(PrecedingPair[1], PrecedingPair[2]),
                              PartialToken(Before))
            /\ completion.calls = <<>>
        /\ n > 4 => completion.completions = <<>>

C15_NonEmptyPartialWitness ==
    /\ Answered
    /\ Before = "containers kill web SIGK"
    /\ completion.completions = <<"SIGKILL">>
    /\ completion.calls = <<>>

\* Container or image names are being completed: the code's third word of a
\* pair that takes a name
CompletingNames ==
    LET words == split_whitespace(Before) IN
    /\ Len(words) = 3
    /\ <<words[1], words[2]>> \in container_name_pairs \cup image_name_pairs

\* C16: one call of complete spawns at most one subprocess, and spawns one
\* only when container or image names are being completed.
C16_OneSubprocess ==
    Answered =>
        /\ Cardinality(Subprocesses(completion.calls)) <= 1
        /\ completion.calls # <<>> => CompletingNames

\* The part of C16 the code keeps: subprocesses are spawned only when names
\* are being completed, and at most one of them is a listing query.
C16_OneListingQuery ==
    Answered =>
        /\ Cardinality({i \in DOMAIN completion.calls :
                            IsListingQuery(completion.calls[i])}) <= 1
        /\ completion.calls # <<>> => CompletingNames

C16_ListingWitness ==
    /\ Answered
    /\ Before = "containers start web2"
    /\ completion.calls = <<DockerVersion, DockerInfo, "docker ps -a --format json">>
    /\ completion.completions = <<"web2">>

(***************************************************************************)
(* End-of-input and the exit directives inside a sub-menu                  *)
(***************************************************************************)

\* C27: once standard input has reached end-of-input while a container or
\* image sub-menu is prompting, the session eventually terminates.
C27_EndOfInputTerminates == (InSubMenu /\ input_ended) ~> (mode = "Terminal")

\* The sub-menu has read end-of-input as an empty line and prompts again
C27_Reprompted ==
    /\ InSubMenu
    /\ input_ended
    /\ FromSubMenu
    /\ last.input = ""
    /\ last.shown = Shown("error", "Invalid action. Use 'back' to return to main menu.")

C28_QuitWitness ==
    /\ InSubMenu
    /\ FromSubMenu
    /\ last.input = "quit"
    /\ last.calls = <<>>

(***************************************************************************)
(* The library: format_size and validate_container_name of utils.rs, the   *)
(* line parsers of the listing operations of docker.rs and the bars of     *)
(* charts.rs. A u64 is the sequence of its base-1024 digits, lowest first  *)
(* (512 is <<512>>, 1536 is <<512, 1>>), so that a division by 1024.0      *)
(* moves one digit behind the point; values stay below 2^53, where the     *)
(* conversion to f64 and the divisions are exact.                          *)
(***************************************************************************)

UNITS == <<"B", "KB", "MB", "GB", "TB">>

\* The number a sequence of base-1024 digits, lowest first, stands for
whole_value(digits) ==
    LET RECURSIVE value(_)
        value(ds) == IF ds = <<>> THEN 0 ELSE Head(ds) + 1024 * value(Tail(ds))
    IN value(digits)

\* floor(m * f) for the fraction f whose base-1024 digits are frac, highest
\* first, and whether m * f is a whole number
scaled(frac, m) ==
    LET RECURSIVE sc(_)
        sc(fs) ==
            IF fs = <<>> THEN [floor |-> 0, exact |-> TRUE]
            ELSE LET lower == sc(Tail(fs))
                     n == m * Head(fs) + lower.floor
                 IN [floor |-> n \div 1024, exact |-> lower.exact /\ n % 1024 = 0]
    IN sc(frac)

\* A formatting that cuts the expansion after one decimal without rounding
one_decimal_truncated(whole, frac) ==
    LET tenths == 10 * whole + scaled(frac, 10).floor
    IN to_string(tenths \div 10) \o "." \o to_string(tenths % 10)

\* format!("{:.1}", size): the decimal expansion of size cut after one
\* decimal, rounded to nearest, a half to the even digit
one_decimal(whole, frac) ==
    LET twentieths == scaled(frac, 20)
        down == twentieths.floor \div 2
        up == /\ twentieths.floor % 2 = 1
              /\ ~twentieths.exact \/ down % 2 = 1
        tenths == 10 * whole + down + (IF up THEN 1 ELSE 0)
    IN to_string(tenths \div 10) \o "." \o to_string(tenths % 10)

\* format_size(bytes)
format_size(bytes) ==
    LET RECURSIVE loop(_, _, _)
        \* size is whole + 0.frac; size >= 1024.0 when whole has a second digit
        loop(whole, frac, unit_index) ==
            IF Len(whole) > 1 /\ unit_index < Len(UNITS) - 1
            THEN loop(Tail(whole), <<Head(whole)>> \o frac, unit_index + 1)
            ELSE [whole |-> whole_value(whole), frac |-> frac, unit_index |-> unit_index]
        size == loop(bytes, <<>>, 0)
    IN IF size.unit_index = 0
       THEN to_string(size.whole) \o " " \o UNITS[size.unit_index + 1]
       ELSE one_decimal(size.whole, size.frac) \o " " \o UNITS[size.unit_index + 1]

\* char::len_utf8 and char::is_alphanumeric on the characters that occur:
\* ASCII ones, and the letters é and ß, of two bytes each
chars(text) == {SubSeq(text, i, i) : i \in 1..Len(text)}
len_utf8(c) == IF c \in {"é", "ß"} THEN 2 ELSE 1
is_alphanumeric(c) ==
    c \in chars(UpperCase) \cup chars(LowerCase) \cup chars(DecimalDigits) \cup {"é", "ß"}

\* str::len: the length in bytes
len(text) ==
    LET RECURSIVE bytes(_)
        bytes(t) == IF t = "" THEN 0 ELSE len_utf8(SubSeq(t, 1, 1)) + bytes(Tail(t))
    IN bytes(text)

\* validate_container_name(name): "Ok" or the error message
validate_container_name(name) ==
    IF name = "" THEN "Container name cannot be empty"
    ELSE IF len(name) > 63
    THEN "Container name cannot be longer than 63 characters"
    ELSE IF ~ \A i \in 1..Len(name) :
                LET c == SubSeq(name, i, i)
                IN is_alphanumeric(c) \/ c = "-" \/ c = "_" \/ c = "."
    THEN "Container name can only contain alphanumeric characters, hyphens, underscores, and dots"
    ELSE "Ok"

\* validate_image_name(name)
validate_image_name(name) ==
    IF name = "" THEN "Image name cannot be empty"
    ELSE IF \E i \in 1..Len(name) : SubSeq(name, i, i) = " "
    THEN "Image name cannot contain spaces"
    ELSE "Ok"

\* The keys a listing operation requires of a line of `--format json` output
required_keys(operation) ==
    CASE operation = "containers" -> {"ID", "Names", "Image", "Status"}
      [] operation = "stats" ->
            {"Name", "CPUPerc", "MemUsage", "MemPerc", "NetIO", "BlockIO"}
      [] operation = "images" -> {"ID", "Repository", "Tag", "Size", "CreatedAt"}
      [] operation = "networks" -> {"ID", "Name", "Driver", "Scope"}
      [] operation = "volumes" -> {"Name", "Driver", "Mountpoint"}

\* The message eprintln! prints for a line serde_json cannot parse
parse_diagnostic(operation) ==
    CASE operation = "containers" -> "Failed to parse container JSON"
      [] operation = "stats" -> "Failed to parse stats JSON"
      [] operation = "images" -> "Failed to parse image JSON"
      [] operation = "networks" -> "Failed to parse network JSON"
      [] operation = "volumes" -> "Failed to parse volume JSON"

\* A line of output is what matters of it to the loop: whether it is blank,
\* whether serde_json::from_str parses it ("error" when not, "object" or
\* "scalar" for the value when it does), and the keys under which an object
\* holds a string (json.get(key).and_then(|v| v.as_str()) is Some)
OutputLine(json, strings) == [json |-> json, strings |-> strings]

\* for line in output_str.lines() { ... }: the lines, by their number, for
\* which a record is pushed, and what is printed to stderr
parse_lines(operation, lines) ==
    LET RECURSIVE go(_)
        go(i) ==
            IF i > Len(lines) THEN [records |-> <<>>, diagnostics |-> <<>>]
            ELSE LET rest == go(i + 1)
                 IN IF lines[i].json = "blank" THEN rest
                    ELSE IF lines[i].json = "error"
                    THEN [rest EXCEPT !.diagnostics =
                            <<[line |-> i, text |-> parse_diagnostic(operation)]>> \o @]
                    ELSE IF /\ lines[i].json = "object"
                            /\ required_keys(operation) \subseteq lines[i].strings
                    THEN [rest EXCEPT !.records = <<i>> \o @]
                    ELSE rest
    IN go(1)

\* text.replace('%', "")
without_percent(text) ==
    LET RECURSIVE strip(_)
        strip(t) ==
            IF t = "" THEN ""
            ELSE (IF SubSeq(t, 1, 1) = "%" THEN "" ELSE SubSeq(t, 1, 1)) \o strip(Tail(t))
    IN strip(text)

\* text.parse::<f32>() for the plain decimal forms (a sign, digits, a point,
\* digits), in hundredths, further decimals dropped; anything else is Err
parse_f32(text) ==
    LET signed == text # "" /\ SubSeq(text, 1, 1) \in {"+", "-"}
        body == IF signed THEN Tail(text) ELSE text
        points == {i \in 1..Len(body) : SubSeq(body, i, i) = "."}
        point == IF points = {} THEN Len(body) + 1 ELSE CHOOSE i \in points : TRUE
        whole == SubSeq(body, 1, point - 1)
        decimals == SubSeq(body, point + 1, Len(body))
        all_digits(t) == \A i \in 1..Len(t) : IsDigit(SubSeq(t, i, i))
        two == SubSeq(decimals \o "00", 1, 2)
        value == 100 * digits_value(whole) + digits_value(two)
    IN IF /\ Cardinality(points) <= 1
          /\ Len(whole) + Len(decimals) > 0
          /\ all_digits(whole) /\ all_digits(decimals)
       THEN [ok |-> TRUE,
             value |-> IF signed /\ SubSeq(text, 1, 1) = "-" THEN 0 - value ELSE value]
       ELSE [ok |-> FALSE, value |-> 0]

\* The percentages, in hundredths and up to 400%, at which the f32 product
\* (percent / 100.0) * 50.0 falls just below the whole number it would be
f32_short == {10600, 11800, 21000, 21200, 23400, 23600}

\* ((percent / 100.0) * 50.0) as usize, percent in hundredths: the cast
\* truncates and takes a negative value to 0
bar_length(percent) ==
    IF percent < 0 THEN 0
    ELSE percent \div 200 - (IF percent \in f32_short THEN 1 ELSE 0)

\* One row of a usage chart: the bar and "░".repeat(50 - bar_length). The
\* subtraction is of usize: below zero it panics in a build with overflow
\* checks and wraps to 2^64 - (bar_length - 50) in one without, where repeat
\* then panics because three bytes times that count overflows usize
bar_row(text, build) ==
    LET parsed == parse_f32(without_percent(text))
        percent == IF parsed.ok THEN parsed.value ELSE 0
        filled == bar_length(percent)
    IN IF filled <= 50
       THEN [percent |-> text, bar |-> filled, empty |-> 50 - filled, panic |-> ""]
       ELSE [percent |-> text, bar |-> filled, empty |-> 0 - (filled - 50),
             panic |-> IF build = "debug" THEN "attempt to subtract with overflow"
                       ELSE "capacity overflow"]

\* The rows a chart prints for the percentages of its stats, up to the row
\* that panics
chart_rows(percents, build) ==
    LET RECURSIVE rows(_)
        rows(i) ==
            IF i > Len(percents) THEN <<>>
            ELSE LET row == bar_row(percents[i], build)
                 IN IF row.panic # "" THEN <<row>> ELSE <<row>> \o rows(i + 1)
    IN rows(1)

\* render_cpu_usage_chart(stats) and render_memory_usage_chart(stats)
render_cpu_usage_chart(stats, build) ==
    chart_rows([i \in DOMAIN stats |-> stats[i].cpu_percent], build)
render_memory_usage_chart(stats, build) ==
    chart_rows([i \in DOMAIN stats |-> stats[i].memory_percent], build)

(***************************************************************************)
(* The library on its own: one call per step, its arguments drawn from the *)
(* sets below.                                                             *)
(***************************************************************************)

\* How many base-1024 digits a size has at most, how many lines an output
\* and how many stats a chart
MaxSizeDigits == 6
MaxLines == 2
MaxStats == 2

Repeat(c, n) ==
    LET RECURSIVE rep(_)
        rep(k) == IF k = 0 THEN "" ELSE c \o rep(k - 1)
    IN rep(n)

\* Sizes of one digit, and of n digits: two low digits under a top digit
Sizes ==
    {<<d>> : d \in {0, 1, 512, 1023}}
    \cup {<<low, top>> : low \in {0, 51, 52, 256, 512, 768, 1023}, top \in {1, 2, 1023}}
    \cup UNION {{[i \in 1..(n - 3) |-> 0] \o <<low, high, top>> :
                    low \in {0, 512, 1023}, high \in {0, 256, 512, 1023},
                    top \in {1, 2, 7}} : n \in 3..MaxSizeDigits}

Names ==
    {"", "my-container", "my_container", "my.container", "my container", "web",
     "a/b", "-", ".", "é", "café", "name!", "Web_1.2-x", "ß9", "web:1", "a@b"}
    \cup {Repeat("a", n) : n \in {62, 63, 64}}
    \cup {Repeat("é", n) : n \in {31, 32, 63, 64}}
    \cup {Repeat("a", 62) \o "é", Repeat("a", 63) \o "!"}

\* Lines of output: blank, not JSON, JSON that is no object, an object with
\* every required key (and with one more), an object that lacks one of them
\* or holds something other than a string under it
Outputs(operation) ==
    LET kinds ==
            {OutputLine("blank", {}), OutputLine("error", {}), OutputLine("scalar", {}),
             OutputLine("object", required_keys(operation)),
             OutputLine("object", required_keys(operation) \cup {"Ports"})}
            \cup {OutputLine("object", required_keys(operation) \ {key}) :
                    key \in required_keys(operation)}
    IN UNION {[1..n -> kinds] : n \in 0..MaxLines}

Percents ==
    {"0.00%", "1.99%", "12.34%", "50.00%", "80.01%", "99.99%", "100.00%", "100.01%",
     "101.99%", "102.00%", "106.00%", "150.00%", "250.50%", "--", "", "-5.00%",
     "abc%", "7", "3.5%%"}

Stats ==
    UNION {[1..n -> {[name |-> "web", cpu_percent |-> p, memory_percent |-> p] :
                        p \in Percents}
                    \cup {[name |-> "db", cpu_percent |-> "150.00%",
                           memory_percent |-> "12.34%"]}] : n \in 0..MaxStats}

FormatSize(bytes) ==
    /\ evaluation = NoEvaluation
    /\ evaluation' = [of |-> "format_size", bytes |-> bytes,
                      returned |-> format_size(bytes)]
    /\ UNCHANGED <<ready_run, line, pos, completion, mode, engine_containers,
                   engine_images, snapshot, entered, last, input_ended, invocation>>

ValidateContainerName(name) ==
    /\ evaluation = NoEvaluation
    /\ evaluation' = [of |-> "validate_container_name", name |-> name,
                      returned |-> validate_container_name(name)]
    /\ UNCHANGED <<ready_run, line, pos, completion, mode, engine_containers,
                   engine_images, snapshot, entered, last, input_ended, invocation>>

\* The loop over the lines of the output of a listing operation
ParseLines(operation, lines) ==
    /\ evaluation = NoEvaluation
    /\ evaluation' = [of |-> "parse_lines", operation |-> operation, lines |-> lines]
                     @@ parse_lines(operation, lines)
    /\ UNCHANGED <<ready_run, line, pos, completion, mode, engine_containers,
                   engine_images, snapshot, entered, last, input_ended, invocation>>

\* A usage chart is rendered for the stats of a listing
RenderUsageChart(chart, stats, build) ==
    /\ evaluation = NoEvaluation
    /\ evaluation' = [of |-> chart, stats |-> stats, build |-> build,
                      rows |-> IF chart = "render_cpu_usage_chart"
                               THEN render_cpu_usage_chart(stats, build)
                               ELSE render_memory_usage_chart(stats, build)]
    /\ UNCHANGED <<ready_run, line, pos, completion, mode, engine_containers,
                   engine_images, snapshot, entered, last, input_ended, invocation>>

\* The call has returned; nothing of it is retained
Return ==
    /\ evaluation # NoEvaluation
    /\ evaluation' = NoEvaluation
    /\ UNCHANGED <<ready_run, line, pos, completion, mode, engine_containers,
                   engine_images, snapshot, entered, last, input_ended, invocation>>

NextLibrary ==
    \/ \E bytes \in Sizes : FormatSize(bytes)
    \/ \E name \in Names : ValidateContainerName(name)
    \/ \E operation \in {"containers", "images", "stats", "networks", "volumes"} :
         \E lines \in Outputs(operation) :
            ParseLines(operation, lines)
    \/ \E chart \in {"render_cpu_usage_chart", "render_memory_usage_chart"},
          stats \in Stats, build \in {"debug", "release"} :
            RenderUsageChart(chart, stats, build)
    \/ Return

SpecLibrary == InitReady /\ [][NextLibrary]_vars

(***************************************************************************)
(* The library: sizes, names, listings and bars                            *)
(***************************************************************************)

\* The position of the first c in text, or 0
IndexOf(text, c) ==
    LET at == {i \in 1..Len(text) : SubSeq(text, i, i) = c}
    IN IF at = {} THEN 0 ELSE CHOOSE i \in at : \A j \in at : i <= j

\* The parts of a formatted size "<whole>.<decimal> <unit>"
SizeNumber(text) == SubSeq(text, 1, IndexOf(text, " ") - 1)
SizeUnit(text) == SubSeq(text, IndexOf(text, " ") + 1, Len(text))
SizeWhole(text) == SubSeq(SizeNumber(text), 1, IndexOf(SizeNumber(text), ".") - 1)
SizeDecimals(text) ==
    SubSeq(SizeNumber(text), IndexOf(SizeNumber(text), ".") + 1, Len(SizeNumber(text)))
AllDigits(text) == text # "" /\ \A i \in 1..Len(text) : IsDigit(SubSeq(text, i, i))

\* The digits of a fraction, highest first, without the zeros that end it
Significant(frac) ==
    LET last_used == {i \in 1..Len(frac) : frac[i] # 0}
    IN SubSeq(frac, 1, IF last_used = {} THEN 0
                       ELSE CHOOSE i \in last_used : \A j \in last_used : j <= i)

Power1024(n) == IF n = 0 THEN 1 ELSE IF n = 1 THEN 1024 ELSE 1024 * 1024

\* C24: format_size(b) is "<b> B" when b is below 1024; otherwise b is
\* divided by 1024 until it is below 1024 or the unit is TB (so the unit is
\* the one of as many divisions as b has base-1024 digits after the first,
\* at most four), and the result is that quotient with one decimal place,
\* the nearest there is, then a space and the unit; 512, 1024, 1536 and
\* 1048576 give "512 B", "1.0 KB", "1.5 KB" and "1.0 MB".
C24_FormatSize ==
    evaluation.of = "format_size" =>
        LET bytes == evaluation.bytes
            text == evaluation.returned
            divisions == IF Len(bytes) - 1 < 4 THEN Len(bytes) - 1 ELSE 4
            quotient == whole_value(SubSeq(bytes, divisions + 1, Len(bytes)))
            frac == Significant([i \in 1..divisions |-> bytes[divisions + 1 - i]])
            tenths == 10 * digits_value(SizeWhole(text)) + digits_value(SizeDecimals(text))
            over == (tenths - 10 * quotient) * Power1024(Len(frac))
                    - 10 * whole_value([i \in 1..Len(frac) |-> frac[Len(frac) + 1 - i]])
        IN /\ Len(bytes) = 1 => text = to_string(bytes[1]) \o " B"
           /\ Len(bytes) > 1 =>
                /\ SizeUnit(text) = UNITS[divisions + 1]
                /\ SizeUnit(text) \in {"KB", "MB", "GB", "TB"}
                /\ divisions < 4 => quotient < 1024
                /\ AllDigits(SizeWhole(text))
                /\ AllDigits(SizeDecimals(text)) /\ Len(SizeDecimals(text)) = 1
                /\ Len(frac) <= 2 =>
                        /\ 2 * over <= Power1024(Len(frac))
                        /\ 0 - Power1024(Len(frac)) <= 2 * over
           /\ bytes = <<512>> => text = "512 B"
           /\ bytes = <<0, 1>> => text = "1.0 KB"
           /\ bytes = <<512, 1>> => text = "1.5 KB"
           /\ bytes = <<0, 0, 1>> => text = "1.0 MB"

\* 1536 bytes have been formatted
C24_Witness ==
    /\ evaluation.of = "format_size"
    /\ evaluation.bytes = <<512, 1>>
    /\ evaluation.returned = "1.5 KB"

\* 2048 TB have been formatted: the unit stays TB
C24_TerabytesWitness ==
    /\ evaluation.of = "format_size"
    /\ evaluation.bytes = <<0, 0, 0, 0, 0, 2>>
    /\ evaluation.returned = "2048.0 TB"

\* A character the claim allows in a name
NameCharacter(c) == is_alphanumeric(c) \/ c \in {"-", "_", "."}

\* C26: validate_container_name accepts a name exactly when it is not empty,
\* is at most 63 characters long and consists of alphanumeric characters,
\* hyphens, underscores and dots; every other name gets an error.
C26_AcceptedNames ==
    evaluation.of = "validate_container_name" =>
        LET name == evaluation.name
        IN evaluation.returned = "Ok" <=>
                /\ name # ""
                /\ Len(name) <= 63
                /\ \A c \in chars(name) : NameCharacter(c)

\* What holds: the bound is on the bytes of the name
C26_AcceptedNamesInBytes ==
    evaluation.of = "validate_container_name" =>
        LET name == evaluation.name
        IN evaluation.returned = "Ok" <=>
                /\ name # ""
                /\ len(name) <= 63
                /\ \A c \in chars(name) : NameCharacter(c)

\* A name of 32 characters is rejected as longer than 63
C26_Witness ==
    /\ evaluation.of = "validate_container_name"
    /\ Len(evaluation.name) = 32
    /\ evaluation.returned = "Container name cannot be longer than 63 characters"

\* A line from which a record is to be built, and a line that is not one
WellFormed(operation, ln) ==
    ln.json = "object" /\ required_keys(operation) \subseteq ln.strings
Malformed(operation, ln) == ln.json # "blank" /\ ~WellFormed(operation, ln)

\* The numbers, in order, of the lines that satisfy a condition
LinesWhere(lines, Cond(_)) ==
    LET RECURSIVE from(_)
        from(i) == IF i > Len(lines) THEN <<>>
                   ELSE (IF Cond(lines[i]) THEN <<i>> ELSE <<>>) \o from(i + 1)
    IN from(1)

\* C25: for every listing operation and every output, the result holds one
\* record for each well-formed line, in the order of the output, and each
\* malformed line is skipped with a diagnostic; the listing does not fail.
C25_PerLine ==
    evaluation.of = "parse_lines" =>
        LET WellFormedLine(ln) == WellFormed(evaluation.operation, ln)
            MalformedLine(ln) == Malformed(evaluation.operation, ln)
        IN /\ evaluation.records = LinesWhere(evaluation.lines, WellFormedLine)
           /\ [i \in DOMAIN evaluation.diagnostics |-> evaluation.diagnostics[i].line]
                = LinesWhere(evaluation.lines, MalformedLine)

\* What holds: the records are those of the well-formed lines, in order, and
\* the diagnostics are those of the lines that are not JSON
C25_RecordsPerLine ==
    evaluation.of = "parse_lines" =>
        LET WellFormedLine(ln) == WellFormed(evaluation.operation, ln)
            NotJson(ln) == ln.json = "error"
        IN /\ evaluation.records = LinesWhere(evaluation.lines, WellFormedLine)
           /\ [i \in DOMAIN evaluation.diagnostics |-> evaluation.diagnostics[i].line]
                = LinesWhere(evaluation.lines, NotJson)

\* An object that lacks a required key has been skipped without a diagnostic
C25_Witness ==
    /\ evaluation.of = "parse_lines"
    /\ Len(evaluation.lines) = 2
    /\ evaluation.lines[1].json = "object"
    /\ ~WellFormed(evaluation.operation, evaluation.lines[1])
    /\ evaluation.records = <<2>>
    /\ evaluation.diagnostics = <<>>

\* C29: in both usage charts, for every stat and every percentage parsed,
\* values above 100 included, the filled length is between 0 and 50, filled
\* plus empty is 50 and the subtraction 50 - bar_length does not underflow.
C29_BarWithinChart ==
    evaluation.of \in {"render_cpu_usage_chart", "render_memory_usage_chart"} =>
        /\ Len(evaluation.rows) = Len(evaluation.stats)
        /\ \A i \in DOMAIN evaluation.rows :
            /\ evaluation.rows[i].bar \in 0..50
            /\ evaluation.rows[i].bar + evaluation.rows[i].empty = 50
            /\ evaluation.rows[i].panic = ""

\* What holds: up to 100% the bar fits
C29_BarWithinChartTo100 ==
    evaluation.of \in {"render_cpu_usage_chart", "render_memory_usage_chart"} =>
        \A i \in DOMAIN evaluation.rows :
            LET parsed == parse_f32(without_percent(evaluation.rows[i].percent))
            IN (parsed.ok => parsed.value <= 10000) =>
                /\ evaluation.rows[i].bar \in 0..50
                /\ evaluation.rows[i].bar + evaluation.rows[i].empty = 50
                /\ evaluation.rows[i].panic = ""

\* A chart has stopped at a stat of 150%
C29_Witness ==
    /\ evaluation.of = "render_cpu_usage_chart"
    /\ Len(evaluation.stats) = 2
    /\ evaluation.stats[1].cpu_percent = "150.00%"
    /\ Len(evaluation.rows) = 1
    /\ evaluation.rows[1].bar = 75
    /\ evaluation.rows[1].panic # ""

(***************************************************************************)
(* The command line: one run of `dui <arguments>`, from clap's parse of    *)
(* the arguments to the return of main. `dui interactive` enters the       *)
(* interactive shell above.                                                *)
(***************************************************************************)

Subcommands ==
    {"containers", "images", "networks", "volumes", "monitor", "charts", "interactive"}

\* The positional arguments of a subcommand, by their index
subcommand_args(subcommand) ==
    CASE subcommand = "containers" ->
            <<"action", "name", "command", "image", "ports", "volumes", "env",
              "repository", "tag", "src_path", "dest_path", "output_file", "signal",
              "new_name", "cpu_period", "cpu_quota", "memory", "memory_swap">>
      [] subcommand = "images" -> <<"action", "name", "target", "file", "repository">>
      [] subcommand \in {"monitor", "charts"} -> <<"type">>
      [] OTHER -> <<>>

\* A parser that has lost the last container action
possible_values_short(subcommand) ==
    CASE subcommand = "containers" ->
            {"list", "start", "stop", "restart", "pause", "unpause", "remove",
             "logs", "exec", "inspect", "create", "size", "info", "attach",
             "commit", "cp", "diff", "export", "kill", "port", "rename",
             "top", "update"}
      [] subcommand = "images" ->
            {"list", "pull", "build", "tag", "push", "remove", "history", "import",
             "load", "save"}
      [] subcommand = "monitor" -> {"stats", "system", "events", "dashboard", "charts"}
      [] subcommand = "charts" ->
            {"cpu", "memory", "network", "storage", "status", "images", "pie",
             "dashboard"}

\* .possible_values(&[..]) of the first positional argument of a subcommand
possible_values(subcommand) ==
    CASE subcommand = "containers" ->
            {"list", "start", "stop", "restart", "pause", "unpause", "remove",
             "logs", "exec", "inspect", "create", "size", "info", "attach",
             "commit", "cp", "diff", "export", "kill", "port", "rename",
             "top", "update", "wait"}
      [] subcommand = "images" ->
            {"list", "pull", "build", "tag", "push", "remove", "history", "import",
             "load", "save"}
      [] subcommand = "monitor" -> {"stats", "system", "events", "dashboard", "charts"}
      [] subcommand = "charts" ->
            {"cpu", "memory", "network", "storage", "status", "images", "pie",
             "dashboard"}

\* What get_matches makes of the arguments: exit is "usage" when clap prints
\* an error and exits, "help" when it prints its own help and exits, and ""
\* when it returns; values maps the name of each positional argument given
\* to its value
Matches(exit, subcommand, values) ==
    [exit |-> exit, subcommand |-> subcommand, values |-> values]

get_matches(argv) ==
    IF argv = <<>> THEN Matches("", "", <<>>)
    ELSE IF argv[1] \in {"help", "--help", "-h"} THEN Matches("help", "", <<>>)
    ELSE IF argv[1] \notin Subcommands THEN Matches("usage", "", <<>>)
    ELSE
    LET given == Tail(argv)
        names == subcommand_args(argv[1])
    IN IF \/ Len(given) > Len(names)
          \/ names # <<>> /\ given = <<>>
          \/ names # <<>> /\ given # <<>> /\ given[1] \notin possible_values(argv[1])
       THEN Matches("usage", "", <<>>)
       ELSE Matches("", argv[1],
                    [name \in {names[i] : i \in 1..Len(given)} |->
                        given[CHOOSE i \in 1..Len(given) : names[i] = name]])

\* The arguments an action of `dui containers` or `dui images` requires: the
\* names its `if let (Some(..), ..)` binds
required_args(subcommand, action) ==
    IF subcommand = "containers"
    THEN CASE action = "list" -> <<>>
           [] action = "create" -> <<"name", "image">>
           [] action = "commit" -> <<"name", "repository">>
           [] action = "cp" -> <<"name", "src_path", "dest_path">>
           [] action = "export" -> <<"name", "output_file">>
           [] action = "rename" -> <<"name", "new_name">>
           [] action = "exec" -> <<"name", "command">>
           [] OTHER -> <<"name">>
    ELSE CASE action = "list" -> <<>>
           [] action \in {"build", "tag"} -> <<"name", "target">>
           [] action = "import" -> <<"file", "repository">>
           [] action = "load" -> <<"file">>
           [] action = "save" -> <<"name", "file">>
           [] OTHER -> <<"name">>

\* What show_error prints when a required argument is missing
missing_argument(subcommand, action, values) ==
    IF subcommand = "containers"
    THEN CASE action = "create" -> "Container name and image are required for create action"
           [] action = "commit" ->
                "Container name and repository are required for commit action"
           [] action = "cp" ->
                "Container name, source path, and destination path are required for cp action"
           [] action = "export" ->
                "Container name and output file are required for export action"
           [] action = "rename" ->
                "Container name and new name are required for rename action"
           [] action = "exec" /\ "name" \in DOMAIN values ->
                "Command is required for exec action"
           [] OTHER -> "Container name is required for " \o action \o " action"
    ELSE CASE action = "build" ->
                IF "name" \in DOMAIN values THEN "Tag is required for build action"
                ELSE "Path is required for build action"
           [] action = "tag" ->
                IF "name" \in DOMAIN values THEN "Target tag is required for tag action"
                ELSE "Source image is required for tag action"
           [] action = "import" ->
                "File path and repository name are required for import action"
           [] action = "load" -> "File path is required for load action"
           [] action = "save" -> "Image name and output file are required for save action"
           [] OTHER -> "Image name is required for " \o action \o " action"

\* An optional argument on a docker command line
option(flag, values, name) ==
    IF name \in DOMAIN values THEN flag \o " " \o values[name] ELSE ""

\* The docker command line of an action whose arguments are all there
command_request(subcommand, action, values) ==
    IF subcommand = "containers"
    THEN CASE action = "create" ->
                "docker run -d --name " \o values.name \o option(" -p", values, "ports")
                \o option(" -v", values, "volumes") \o option(" -e", values, "env")
                \o " " \o values.image
           [] action = "commit" ->
                "docker commit " \o values.repository \o option("", values, "tag")
                \o " " \o values.name
           [] action = "kill" ->
                "docker kill" \o option(" -s", values, "signal") \o " " \o values.name
           [] action = "update" ->
                "docker update" \o option(" --cpu-period", values, "cpu_period")
                \o option(" --cpu-quota", values, "cpu_quota")
                \o option(" --memory", values, "memory")
                \o option(" --memory-swap", values, "memory_swap")
                \o " " \o values.name
           [] action = "size" ->
                "docker ps -s --format json --filter name=" \o values.name
           [] OTHER ->
                container_request(action, values.name,
                    LET extra == Tail(required_args(subcommand, action))
                    IN [i \in DOMAIN extra |-> values[extra[i]]])
    ELSE CASE action = "pull" -> "docker pull " \o values.name
           [] action = "build" -> "docker build -t " \o values.target \o " " \o values.name
           [] action = "import" ->
                "docker import " \o values.repository \o option("", values, "target")
                \o " " \o values.file
           [] action = "load" -> "docker load -i " \o values.file
           [] OTHER ->
                image_request(action, values.name,
                    LET extra == Tail(required_args(subcommand, action))
                    IN [i \in DOMAIN extra |-> values[extra[i]]])

\* What a run leaves behind: how it ended, the subprocesses it spawned in
\* order, what it printed last, the answer it read when it asked to confirm
\* ("-" when it did not ask), and whether an argument check turned it down
Finished(exit, calls, shown, asked, rejected) ==
    [exit |-> exit, calls |-> calls, shown |-> shown, asked |-> asked,
     rejected |-> rejected]

\* handle_container_command and handle_image_command; ok is whether the
\* docker command of the action ran and exited zero
handle_command(subcommand, values, env, ok, answer) ==
    LET action == values.action
        needed == required_args(subcommand, action)
        row == CHOOSE r \in Range(shell_commands) : r.word = subcommand
        listing == client_call(row, env, ok)
        invalid ==
            IF validate_container_name(values.name) # "Ok"
            THEN validate_container_name(values.name)
            ELSE IF validate_image_name(values.image) # "Ok"
            THEN validate_image_name(values.image)
            ELSE ""
        request == command_request(subcommand, action, values)
    IN
    IF action = "list"
    THEN Finished("returned", listing.calls,
              IF listing.ok THEN Shown("list", subcommand)
              ELSE Shown("error", row.fail), "-", FALSE)
    ELSE IF \E i \in DOMAIN needed : needed[i] \notin DOMAIN values
    THEN Finished("returned", <<>>,
              Shown("error", missing_argument(subcommand, action, values)), "-", TRUE)
    ELSE IF action = "remove" /\ ~confirm(answer)
    THEN Finished("returned", <<>>, Nothing, answer, FALSE)
    ELSE IF subcommand = "containers" /\ action = "create" /\ invalid # ""
    THEN Finished("returned", <<>>,
              Shown("error", "Failed to create container: " \o invalid), "-", TRUE)
    ELSE Finished("returned", <<request>>,
              IF ok THEN Shown("done", action) ELSE Shown("error", "Failed to " \o action),
              IF action = "remove" THEN answer ELSE "-", FALSE)

\* The client function behind `dui networks`, `dui volumes`, `dui monitor
\* <type>` and `dui charts <type>`
query_of(subcommand, values) ==
    CASE subcommand \in {"networks", "volumes"} -> subcommand
      [] subcommand = "monitor" -> values.type
      [] values.type = "status" -> "containers"
      [] values.type = "images" -> "images"
      [] OTHER -> "stats"

\* main(), for every subcommand but interactive
main(argv, env, ok, answer) ==
    LET matches == get_matches(argv)
        probe == <<DockerVersion>>
    IN
    IF matches.exit # "" THEN Finished(matches.exit, <<>>, Shown("clap", matches.exit), "-",
                                   matches.exit = "usage")
    ELSE IF ~is_docker_available(env)
    THEN Finished("returned", probe,
              Shown("error", "Docker is not available. Please make sure Docker is installed and running."),
              "-", FALSE)
    ELSE IF matches.subcommand = "" THEN Finished("returned", probe, Shown("help", ""), "-", FALSE)
    ELSE IF matches.subcommand = "interactive"
    THEN Finished("interactive", probe, Nothing, "-", FALSE)
    ELSE IF matches.subcommand \in {"containers", "images"}
    THEN LET handled == handle_command(matches.subcommand, matches.values, env, ok, answer)
         IN [handled EXCEPT !.calls = probe \o @]
    ELSE LET row == CHOOSE r \in Range(shell_commands) :
                        r.word = query_of(matches.subcommand, matches.values)
             query == client_call(row, env, ok)
         IN Finished("returned", probe \o query.calls,
                 IF query.ok THEN Shown("output", row.word) ELSE Shown("error", row.fail),
                 "-", FALSE)

\* The argument lists the program is run with
Arguments ==
    {<<>>, <<"help">>, <<"--help">>, <<"bogus">>, <<"interactive">>, <<"networks">>,
     <<"volumes">>, <<"networks", "ls">>, <<"containers">>, <<"images">>,
     <<"monitor">>, <<"charts">>}
    \cup UNION {{<<verb, word>> :
                    word \in possible_values(verb) \cup Range(subcommands(verb))
                             \cup {"ls", "List", "cpu", "stats"}} :
                verb \in {"containers", "images", "monitor", "charts"}}
    \cup {<<"containers", word, "web">> : word \in possible_values("containers")}
    \cup {<<"images", word, "nginx:latest">> : word \in possible_values("images")}
    \cup {<<"containers", "create", name, "sh", image>> :
            name \in {"web", "my container", "", "a/b", Repeat("é", 32),
                      Repeat("a", 64)},
            image \in {"nginx", "my app", ""}}
    \cup {<<"containers", "remove", "my container">>,
          <<"containers", "create", "web", "nginx">>,
          <<"containers", "create", "web", "sh", "nginx", "80:80">>,
          <<"containers", "exec", "web", "ls">>,
          <<"containers", "commit", "web", "c", "i", "p", "v", "e", "myrepo">>,
          <<"containers", "commit", "web", "c", "i", "p", "v", "e", "myrepo", "v2">>,
          <<"images", "build", ".", "app:1">>, <<"images", "tag", "nginx", "web:1">>,
          <<"images", "save", "nginx", "t", "out.tar">>,
          <<"images", "load", "n", "t", "in.tar">>,
          <<"images", "import", "n", "t", "in.tar", "myrepo">>,
          <<"images", "list", "a", "b", "c", "d", "e">>}

InitMain ==
    /\ ready_run = NoRun
    /\ line = ""
    /\ pos = 0
    /\ completion = NoCompletion
    /\ mode = "Start"
    /\ engine_containers = InitialContainers
    /\ engine_images = InitialImages
    /\ snapshot = <<>>
    /\ entered = <<>>
    /\ last = NoLast
    /\ input_ended = FALSE
    /\ invocation = NoInvocation
    /\ evaluation = NoEvaluation

\* The program is run, where docker is missing, its daemon live or its
\* daemon down, and answered if it asks to confirm: main() up to its return, or up to the first prompt of
\* the interactive shell, which main enters without a look at the daemon
Main(argv, env, ok, answer) ==
    /\ mode = "Start"
    /\ LET ran == main(argv, env, ok, answer)
       IN /\ ran.exit = "interactive" => ok /\ env.liveFrom = 1
          /\ invocation' = [argv |-> argv, env |-> env] @@ ran
          /\ mode' = IF ran.exit = "interactive" THEN "Reading" ELSE "Exited"
    /\ UNCHANGED <<ready_run, line, pos, completion, engine_containers, engine_images,
                   snapshot, entered, last, input_ended, evaluation>>

\* The process is gone; the program may be run again
Exit ==
    /\ mode = "Exited"
    /\ mode' = "Start"
    /\ invocation' = NoInvocation
    /\ UNCHANGED <<ready_run, line, pos, completion, engine_containers, engine_images,
                   snapshot, entered, last, input_ended, evaluation>>

NextMain ==
    \/ \E argv \in Arguments, ok \in BOOLEAN,
          env \in {e \in ListingEnvs : e.liveFrom \in {1, NeverLive}} :
         \E answer \in IF Len(argv) > 1 /\ argv[2] = "remove" THEN Answers ELSE {""} :
            Main(argv, env, ok, answer)
    \/ Exit
    \/ Next

SpecMain == InitMain /\ [][NextMain]_vars

(***************************************************************************)
(* The command line: help, confirmation, validation and the vocabulary     *)
(***************************************************************************)

\* C21: a run with no subcommand shows the help message, whether or not the
\* docker binary is installed.
C21_NoSubcommandShowsHelp ==
    invocation.argv = <<>> => invocation.shown = Shown("help", "")

\* What holds: with docker installed a run with no subcommand shows the help
C21_HelpWhenInstalled ==
    (invocation.argv = <<>> /\ invocation.env.installed) =>
        invocation.shown = Shown("help", "")

\* No subcommand, docker not installed: the error is shown and not the help
C21_Witness ==
    /\ invocation.argv = <<>>
    /\ ~invocation.env.installed
    /\ invocation.shown.kind = "error"

\* The remove request of a command line
RemoveRequest(argv) ==
    (IF argv[1] = "containers" THEN "docker rm " ELSE "docker rmi ") \o argv[3]

\* An answer that says yes
SaysYes(answer) == to_lowercase(trim(answer)) \in {"y", "yes"}

\* C22: a remove of a container or an image, from the command line or from a
\* sub-menu, spawns the remove request only when the answer to the
\* confirmation prompt, trimmed and in lower case, is y or yes; on any other
\* answer, the empty one included, it spawns no request to the engine.
C22_RemoveOnlyConfirmed ==
    /\ (/\ invocation.exit = "returned"
        /\ Len(invocation.argv) = 3
        /\ invocation.argv[1] \in {"containers", "images"}
        /\ invocation.argv[2] = "remove"
        /\ invocation.env.installed) =>
            IF SaysYes(invocation.asked)
            THEN invocation.calls = <<DockerVersion, RemoveRequest(invocation.argv)>>
            ELSE /\ \A i \in DOMAIN invocation.calls :
                        ~IsEngineRequest(invocation.calls[i])
                 /\ invocation.asked \in Answers
    /\ (/\ FromSubMenu
        /\ LastParts # <<>>
        /\ LastParts[1] = "remove"
        /\ last.target # "") =>
            IF SaysYes(last.answer)
            THEN last.calls \in {<<"docker rm " \o last.target>>,
                                 <<"docker rmi " \o last.target>>}
            ELSE last.calls = <<>>

\* A remove from the command line was confirmed with " Y " and was spawned
C22_Witness ==
    /\ invocation.argv = <<"containers", "remove", "web">>
    /\ invocation.asked = " Y "
    /\ invocation.calls = <<DockerVersion, "docker rm web">>

\* A remove from the command line met an empty answer
C22_DeclinedWitness ==
    /\ invocation.argv = <<"images", "remove", "nginx:latest">>
    /\ invocation.asked = ""
    /\ invocation.calls = <<DockerVersion>>

\* A remove from a sub-menu met an empty answer
C22_SubMenuWitness ==
    /\ invocation.exit = "interactive"
    /\ FromSubMenu
    /\ LastParts = <<"remove", "1">>
    /\ last.target # ""
    /\ last.answer = ""
    /\ last.calls = <<>>

\* A request that fails validation: clap turns the arguments down, or an
\* argument the action requires is missing, or a name fails the check on
\* create
FailsValidation(argv) ==
    LET matches == get_matches(argv)
        values == matches.values
        needed == required_args(matches.subcommand, values.action)
    IN \/ matches.exit = "usage"
       \/ /\ matches.exit = ""
          /\ matches.subcommand \in {"containers", "images"}
          /\ \/ \E i \in DOMAIN needed : needed[i] \notin DOMAIN values
             \/ /\ matches.subcommand = "containers"
                /\ values.action = "create"
                /\ \/ validate_container_name(values.name) # "Ok"
                   \/ validate_image_name(values.image) # "Ok"

\* C23: a request that fails validation is turned down with its error before
\* any subprocess is spawned for it: the run spawns no subprocess.
C23_ValidationBeforeSubprocess ==
    (invocation.exit # "none" /\ FailsValidation(invocation.argv)) =>
        /\ invocation.rejected
        /\ invocation.calls = <<>>

\* What holds: a request that fails validation spawns no request to the
\* engine, only the probe `docker --version`, and with docker installed its
\* error is what is shown
C23_NoEngineRequest ==
    (invocation.exit # "none" /\ FailsValidation(invocation.argv)) =>
        /\ \A i \in DOMAIN invocation.calls : invocation.calls[i] = DockerVersion
        /\ invocation.env.installed => invocation.rejected

\* A create with a name that fails the check has spawned the probe
C23_Witness ==
    /\ invocation.argv = <<"containers", "create", "my container", "sh", "nginx">>
    /\ invocation.calls = <<DockerVersion>>
    /\ invocation.rejected

\* A start without a name where docker is not installed: the error shown is
\* not the one of the validation
C23_NotReportedWitness ==
    /\ invocation.argv = <<"containers", "start">>
    /\ ~invocation.env.installed
    /\ ~invocation.rejected

\* C30: the words completion offers after containers, images and monitor are
\* exactly the values the parser accepts as the action of that subcommand.
C30_SameVocabulary ==
    /\ \A verb \in {"containers", "images", "monitor"} :
            Range(subcommands(verb)) = possible_values(verb)
    /\ (/\ invocation.exit # "none"
        /\ Len(invocation.argv) = 2
        /\ invocation.argv[1] \in {"containers", "images", "monitor"}) =>
            (invocation.exit # "usage"
                <=> invocation.argv[2] \in Range(subcommands(invocation.argv[1])))

\* The parser has accepted an action that completion offers
C30_Witness ==
    /\ invocation.argv = <<"containers", "wait">>
    /\ invocation.exit = "returned"

\* The parser has turned down a word that completion does not offer
C30_RejectedWitness ==
    /\ invocation.argv = <<"monitor", "cpu">>
    /\ invocation.exit = "usage"

====
